---- MODULE Spec2Model ----
(***************************************************************************)
(* Attribution store, session policy and conversion chain of MustProxy's   *)
(* Yandex.Metrika integration.                                             *)
(*                                                                         *)
(*   bot/services/yandex_metrika_service.py   YandexMetrikaService         *)
(*   db/dal/yandex_tracking_dal.py            the tracking/conversion DAL  *)
(*                                                                         *)
(* Time is counted in whole minutes.  The database is one store shared by  *)
(* all requests: a statement takes effect, and is visible to every other   *)
(* request, at the await that executes it.  Every await of the code is a   *)
(* point where another request may run, so every awaited statement or HTTP *)
(* request is one action; the code between two awaits runs with the action *)
(* that follows it.                                                        *)
(***************************************************************************)
EXTENDS Integers, Sequences, FiniteSets, Bags, TLC

(***************************************************************************)
(* Bounds of the model.                                                    *)
(***************************************************************************)
MaxOps == 2        \* requests started in one behaviour, served concurrently
MaxOpsSeq == 3     \* requests started in one behaviour, served one by one
MaxTicks == 1      \* clock advances in one behaviour
MaxResends == 1    \* resend batches running at the same time
MaxVisits == 2     \* track_visit calls in one behaviour of SpecVisit
MaxElapsed == 800  \* minutes since the last visit at the start of SpecVisit
MaxLen == 31       \* characters of a client id tried, besides the padding
MaxPad == 1        \* spaces before and after a client id tried
MaxOpsRace == 3    \* requests started, and served concurrently, in SpecRace
MaxTicksRace == 1  \* clock advances in one behaviour of SpecRace
MaxFaults == 1     \* inserts the database refuses in one behaviour of SpecBatch
MaxRuns == 3       \* calls of run_database_migrations in one behaviour

Tasks == {"t1", "t2", "t3"}  \* concurrently served requests
Users == {1, 2}
TickSteps == {720, 750}      \* minutes the clock may advance by at once
CleanupDays == {0, 1}        \* retention arguments tried for cleanup

(***************************************************************************)
(* Program constants.                                                      *)
(***************************************************************************)
VISIT_COMPLETION_HOURS == 12
SESSION_TIMEOUT_MINUTES == 30
COUNTER_ID == "counter"

\* counter_id: Optional[str] = None, when the caller gives none
NoCounter == "None"
CounterIds == {COUNTER_ID, NoCounter}

\* timedelta(hours=h, minutes=m) and timedelta(days=d), in minutes
timedelta(days, hours, minutes) == (days * 24 + hours) * 60 + minutes

(***************************************************************************)
(* Client identifiers are strings, modelled as sequences of characters.    *)
(***************************************************************************)
\* A character is a string: itself, an escape, or its code point ("U+00B2")
\* where it is outside printable ASCII.
\* The characters str.isdigit() accepts: the ASCII digits and every other
\* Unicode digit (the decimal digits of all scripts, the superscripts and
\* subscripts, the circled and parenthesized digits, ...).
Digits ==
    {"0", "1", "2", "3", "4", "5", "6", "7", "8", "9", "²", "³", "¹",
     "U+00B2", "U+00B3", "U+00B9", "U+0660", "U+0661", "U+0662", "U+0663",
     "U+0664", "U+0665", "U+0666", "U+0667", "U+0668", "U+0669", "U+06F0",
     "U+06F1", "U+06F2", "U+06F3", "U+06F4", "U+06F5", "U+06F6", "U+06F7",
     "U+06F8", "U+06F9", "U+07C0", "U+07C1", "U+07C2", "U+07C3", "U+07C4",
     "U+07C5", "U+07C6", "U+07C7", "U+07C8", "U+07C9", "U+0966", "U+0967",
     "U+0968", "U+0969", "U+096A", "U+096B", "U+096C", "U+096D", "U+096E",
     "U+096F", "U+09E6", "U+09E7", "U+09E8", "U+09E9", "U+09EA", "U+09EB",
     "U+09EC", "U+09ED", "U+09EE", "U+09EF", "U+0A66", "U+0A67", "U+0A68",
     "U+0A69", "U+0A6A", "U+0A6B", "U+0A6C", "U+0A6D", "U+0A6E", "U+0A6F",
     "U+0AE6", "U+0AE7", "U+0AE8", "U+0AE9", "U+0AEA", "U+0AEB", "U+0AEC",
     "U+0AED", "U+0AEE", "U+0AEF", "U+0B66", "U+0B67", "U+0B68", "U+0B69",
     "U+0B6A", "U+0B6B", "U+0B6C", "U+0B6D", "U+0B6E", "U+0B6F", "U+0BE6",
     "U+0BE7", "U+0BE8", "U+0BE9", "U+0BEA", "U+0BEB", "U+0BEC", "U+0BED",
     "U+0BEE", "U+0BEF", "U+0C66", "U+0C67", "U+0C68", "U+0C69", "U+0C6A",
     "U+0C6B", "U+0C6C", "U+0C6D", "U+0C6E", "U+0C6F", "U+0CE6", "U+0CE7",
     "U+0CE8", "U+0CE9", "U+0CEA", "U+0CEB", "U+0CEC", "U+0CED", "U+0CEE",
     "U+0CEF", "U+0D66", "U+0D67", "U+0D68", "U+0D69", "U+0D6A", "U+0D6B",
     "U+0D6C", "U+0D6D", "U+0D6E", "U+0D6F", "U+0DE6", "U+0DE7", "U+0DE8",
     "U+0DE9", "U+0DEA", "U+0DEB", "U+0DEC", "U+0DED", "U+0DEE", "U+0DEF",
     "U+0E50", "U+0E51", "U+0E52", "U+0E53", "U+0E54", "U+0E55", "U+0E56",
     "U+0E57", "U+0E58", "U+0E59", "U+0ED0", "U+0ED1", "U+0ED2", "U+0ED3",
     "U+0ED4", "U+0ED5", "U+0ED6", "U+0ED7", "U+0ED8", "U+0ED9", "U+0F20",
     "U+0F21", "U+0F22", "U+0F23", "U+0F24", "U+0F25", "U+0F26", "U+0F27",
     "U+0F28", "U+0F29", "U+1040", "U+1041", "U+1042", "U+1043", "U+1044",
     "U+1045", "U+1046", "U+1047", "U+1048", "U+1049", "U+1090", "U+1091",
     "U+1092", "U+1093", "U+1094", "U+1095", "U+1096", "U+1097", "U+1098",
     "U+1099", "U+1369", "U+136A", "U+136B", "U+136C", "U+136D", "U+136E",
     "U+136F", "U+1370", "U+1371", "U+17E0", "U+17E1", "U+17E2", "U+17E3",
     "U+17E4", "U+17E5", "U+17E6", "U+17E7", "U+17E8", "U+17E9", "U+1810",
     "U+1811", "U+1812", "U+1813", "U+1814", "U+1815", "U+1816", "U+1817",
     "U+1818", "U+1819", "U+1946", "U+1947", "U+1948", "U+1949", "U+194A",
     "U+194B", "U+194C", "U+194D", "U+194E", "U+194F", "U+19D0", "U+19D1",
     "U+19D2", "U+19D3", "U+19D4", "U+19D5", "U+19D6", "U+19D7", "U+19D8",
     "U+19D9", "U+19DA", "U+1A80", "U+1A81", "U+1A82", "U+1A83", "U+1A84",
     "U+1A85", "U+1A86", "U+1A87", "U+1A88", "U+1A89", "U+1A90", "U+1A91",
     "U+1A92", "U+1A93", "U+1A94", "U+1A95", "U+1A96", "U+1A97", "U+1A98",
     "U+1A99", "U+1B50", "U+1B51", "U+1B52", "U+1B53", "U+1B54", "U+1B55",
     "U+1B56", "U+1B57", "U+1B58", "U+1B59", "U+1BB0", "U+1BB1", "U+1BB2",
     "U+1BB3", "U+1BB4", "U+1BB5", "U+1BB6", "U+1BB7", "U+1BB8", "U+1BB9",
     "U+1C40", "U+1C41", "U+1C42", "U+1C43", "U+1C44", "U+1C45", "U+1C46",
     "U+1C47", "U+1C48", "U+1C49", "U+1C50", "U+1C51", "U+1C52", "U+1C53",
     "U+1C54", "U+1C55", "U+1C56", "U+1C57", "U+1C58", "U+1C59", "U+2070",
     "U+2074", "U+2075", "U+2076", "U+2077", "U+2078", "U+2079", "U+2080",
     "U+2081", "U+2082", "U+2083", "U+2084", "U+2085", "U+2086", "U+2087",
     "U+2088", "U+2089", "U+2460", "U+2461", "U+2462", "U+2463", "U+2464",
     "U+2465", "U+2466", "U+2467", "U+2468", "U+2474", "U+2475", "U+2476",
     "U+2477", "U+2478", "U+2479", "U+247A", "U+247B", "U+247C", "U+2488",
     "U+2489", "U+248A", "U+248B", "U+248C", "U+248D", "U+248E", "U+248F",
     "U+2490", "U+24EA", "U+24F5", "U+24F6", "U+24F7", "U+24F8", "U+24F9",
     "U+24FA", "U+24FB", "U+24FC", "U+24FD", "U+24FF", "U+2776", "U+2777",
     "U+2778", "U+2779", "U+277A", "U+277B", "U+277C", "U+277D", "U+277E",
     "U+2780", "U+2781", "U+2782", "U+2783", "U+2784", "U+2785", "U+2786",
     "U+2787", "U+2788", "U+278A", "U+278B", "U+278C", "U+278D", "U+278E",
     "U+278F", "U+2790", "U+2791", "U+2792", "U+A620", "U+A621", "U+A622",
     "U+A623", "U+A624", "U+A625", "U+A626", "U+A627", "U+A628", "U+A629",
     "U+A8D0", "U+A8D1", "U+A8D2", "U+A8D3", "U+A8D4", "U+A8D5", "U+A8D6",
     "U+A8D7", "U+A8D8", "U+A8D9", "U+A900", "U+A901", "U+A902", "U+A903",
     "U+A904", "U+A905", "U+A906", "U+A907", "U+A908", "U+A909", "U+A9D0",
     "U+A9D1", "U+A9D2", "U+A9D3", "U+A9D4", "U+A9D5", "U+A9D6", "U+A9D7",
     "U+A9D8", "U+A9D9", "U+A9F0", "U+A9F1", "U+A9F2", "U+A9F3", "U+A9F4",
     "U+A9F5", "U+A9F6", "U+A9F7", "U+A9F8", "U+A9F9", "U+AA50", "U+AA51",
     "U+AA52", "U+AA53", "U+AA54", "U+AA55", "U+AA56", "U+AA57", "U+AA58",
     "U+AA59", "U+ABF0", "U+ABF1", "U+ABF2", "U+ABF3", "U+ABF4", "U+ABF5",
     "U+ABF6", "U+ABF7", "U+ABF8", "U+ABF9", "U+FF10", "U+FF11", "U+FF12",
     "U+FF13", "U+FF14", "U+FF15", "U+FF16", "U+FF17", "U+FF18", "U+FF19",
     "U+104A0", "U+104A1", "U+104A2", "U+104A3", "U+104A4", "U+104A5",
     "U+104A6", "U+104A7", "U+104A8", "U+104A9", "U+10A40", "U+10A41",
     "U+10A42", "U+10A43", "U+10D30", "U+10D31", "U+10D32", "U+10D33",
     "U+10D34", "U+10D35", "U+10D36", "U+10D37", "U+10D38", "U+10D39",
     "U+10E60", "U+10E61", "U+10E62", "U+10E63", "U+10E64", "U+10E65",
     "U+10E66", "U+10E67", "U+10E68", "U+11052", "U+11053", "U+11054",
     "U+11055", "U+11056", "U+11057", "U+11058", "U+11059", "U+1105A",
     "U+11066", "U+11067", "U+11068", "U+11069", "U+1106A", "U+1106B",
     "U+1106C", "U+1106D", "U+1106E", "U+1106F", "U+110F0", "U+110F1",
     "U+110F2", "U+110F3", "U+110F4", "U+110F5", "U+110F6", "U+110F7",
     "U+110F8", "U+110F9", "U+11136", "U+11137", "U+11138", "U+11139",
     "U+1113A", "U+1113B", "U+1113C", "U+1113D", "U+1113E", "U+1113F",
     "U+111D0", "U+111D1", "U+111D2", "U+111D3", "U+111D4", "U+111D5",
     "U+111D6", "U+111D7", "U+111D8", "U+111D9", "U+112F0", "U+112F1",
     "U+112F2", "U+112F3", "U+112F4", "U+112F5", "U+112F6", "U+112F7",
     "U+112F8", "U+112F9", "U+11450", "U+11451", "U+11452", "U+11453",
     "U+11454", "U+11455", "U+11456", "U+11457", "U+11458", "U+11459",
     "U+114D0", "U+114D1", "U+114D2", "U+114D3", "U+114D4", "U+114D5",
     "U+114D6", "U+114D7", "U+114D8", "U+114D9", "U+11650", "U+11651",
     "U+11652", "U+11653", "U+11654", "U+11655", "U+11656", "U+11657",
     "U+11658", "U+11659", "U+116C0", "U+116C1", "U+116C2", "U+116C3",
     "U+116C4", "U+116C5", "U+116C6", "U+116C7", "U+116C8", "U+116C9",
     "U+11730", "U+11731", "U+11732", "U+11733", "U+11734", "U+11735",
     "U+11736", "U+11737", "U+11738", "U+11739", "U+118E0", "U+118E1",
     "U+118E2", "U+118E3", "U+118E4", "U+118E5", "U+118E6", "U+118E7",
     "U+118E8", "U+118E9", "U+11950", "U+11951", "U+11952", "U+11953",
     "U+11954", "U+11955", "U+11956", "U+11957", "U+11958", "U+11959",
     "U+11C50", "U+11C51", "U+11C52", "U+11C53", "U+11C54", "U+11C55",
     "U+11C56", "U+11C57", "U+11C58", "U+11C59", "U+11D50", "U+11D51",
     "U+11D52", "U+11D53", "U+11D54", "U+11D55", "U+11D56", "U+11D57",
     "U+11D58", "U+11D59", "U+11DA0", "U+11DA1", "U+11DA2", "U+11DA3",
     "U+11DA4", "U+11DA5", "U+11DA6", "U+11DA7", "U+11DA8", "U+11DA9",
     "U+16A60", "U+16A61", "U+16A62", "U+16A63", "U+16A64", "U+16A65",
     "U+16A66", "U+16A67", "U+16A68", "U+16A69", "U+16AC0", "U+16AC1",
     "U+16AC2", "U+16AC3", "U+16AC4", "U+16AC5", "U+16AC6", "U+16AC7",
     "U+16AC8", "U+16AC9", "U+16B50", "U+16B51", "U+16B52", "U+16B53",
     "U+16B54", "U+16B55", "U+16B56", "U+16B57", "U+16B58", "U+16B59",
     "U+1D7CE", "U+1D7CF", "U+1D7D0", "U+1D7D1", "U+1D7D2", "U+1D7D3",
     "U+1D7D4", "U+1D7D5", "U+1D7D6", "U+1D7D7", "U+1D7D8", "U+1D7D9",
     "U+1D7DA", "U+1D7DB", "U+1D7DC", "U+1D7DD", "U+1D7DE", "U+1D7DF",
     "U+1D7E0", "U+1D7E1", "U+1D7E2", "U+1D7E3", "U+1D7E4", "U+1D7E5",
     "U+1D7E6", "U+1D7E7", "U+1D7E8", "U+1D7E9", "U+1D7EA", "U+1D7EB",
     "U+1D7EC", "U+1D7ED", "U+1D7EE", "U+1D7EF", "U+1D7F0", "U+1D7F1",
     "U+1D7F2", "U+1D7F3", "U+1D7F4", "U+1D7F5", "U+1D7F6", "U+1D7F7",
     "U+1D7F8", "U+1D7F9", "U+1D7FA", "U+1D7FB", "U+1D7FC", "U+1D7FD",
     "U+1D7FE", "U+1D7FF", "U+1E140", "U+1E141", "U+1E142", "U+1E143",
     "U+1E144", "U+1E145", "U+1E146", "U+1E147", "U+1E148", "U+1E149",
     "U+1E2F0", "U+1E2F1", "U+1E2F2", "U+1E2F3", "U+1E2F4", "U+1E2F5",
     "U+1E2F6", "U+1E2F7", "U+1E2F8", "U+1E2F9", "U+1E950", "U+1E951",
     "U+1E952", "U+1E953", "U+1E954", "U+1E955", "U+1E956", "U+1E957",
     "U+1E958", "U+1E959", "U+1F100", "U+1F101", "U+1F102", "U+1F103",
     "U+1F104", "U+1F105", "U+1F106", "U+1F107", "U+1F108", "U+1F109",
     "U+1F10A", "U+1FBF0", "U+1FBF1", "U+1FBF2", "U+1FBF3", "U+1FBF4",
     "U+1FBF5", "U+1FBF6", "U+1FBF7", "U+1FBF8", "U+1FBF9"}

\* The characters str.strip() removes, those str.isspace() accepts.
Whitespace ==
    {" ", "\t", "\n", "\r", "\f",
     "U+0009", "U+000A", "U+000B", "U+000C", "U+000D", "U+001C", "U+001D",
     "U+001E", "U+001F", "U+0085", "U+00A0", "U+1680", "U+2000", "U+2001",
     "U+2002", "U+2003", "U+2004", "U+2005", "U+2006", "U+2007", "U+2008",
     "U+2009", "U+200A", "U+2028", "U+2029", "U+202F", "U+205F", "U+3000"}

RECURSIVE lstrip(_)
lstrip(s) == IF s # <<>> /\ Head(s) \in Whitespace THEN lstrip(Tail(s)) ELSE s

RECURSIVE rstrip(_)
rstrip(s) ==
    IF s # <<>> /\ s[Len(s)] \in Whitespace
    THEN rstrip(SubSeq(s, 1, Len(s) - 1))
    ELSE s

\* str.strip()
strip(s) == rstrip(lstrip(s))

\* str.replace('.', '')
replace_dots(s) == SelectSeq(s, LAMBDA c : c # ".")

\* str.isdigit(): non-empty and every character a digit
isdigit(s) == s # <<>> /\ \A i \in 1..Len(s) : s[i] \in Digits

\* Mutant: the length is taken before the trimming.
validate_untrimmed_length(client_id) ==
    IF client_id = <<>> \/ Len(strip(client_id)) = 0 THEN FALSE
    ELSE IF ~isdigit(replace_dots(strip(client_id))) THEN FALSE
    ELSE IF Len(client_id) < 10 \/ Len(client_id) > 30 THEN FALSE
    ELSE TRUE

\* YandexMetrikaService._validate_client_id
validate_client_id(client_id) ==
    IF client_id = <<>> \/ Len(strip(client_id)) = 0 THEN FALSE
    ELSE IF ~isdigit(replace_dots(strip(client_id))) THEN FALSE
    ELSE IF Len(strip(client_id)) < 10 \/ Len(strip(client_id)) > 30 THEN FALSE
    ELSE TRUE

CidGood  == <<"1", "2", "3", "4", "5", "6", "7", "8", "9", "0">>
CidShort == <<"1", "2", "3", "4", "5", "6", "7", "8", "9">>
CidLong  == <<"1", "2", "3", "4", "5", "6", "7", "8", "9", "0", "1">>
ClientIds == {CidGood, CidShort}

(***************************************************************************)
(* The payments table (payment_dal, read only here).  payment_id is an     *)
(* integer column; the chain and the conversion table carry it as text.    *)
(***************************************************************************)
Payments ==
    { [payment_id |-> 1, user_id |-> 1, status |-> "succeeded", amount |-> 100],
      [payment_id |-> 2, user_id |-> 1, status |-> "succeeded", amount |-> 250],
      [payment_id |-> 3, user_id |-> 2, status |-> "pending",   amount |-> 100],
      [payment_id |-> 4, user_id |-> 3, status |-> "succeeded", amount |-> 100] }

\* str(p.payment_id) / cast(Payment.payment_id, String)
str(n) == CASE n = 1 -> "1" [] n = 2 -> "2" [] n = 3 -> "3" [] n = 4 -> "4"

VARIABLES
    now,           \* datetime.now(timezone.utc), in minutes
    ticks,         \* how often the clock advanced
    ops,           \* how many operations were started
    configured,    \* YandexMetrikaService.configured
    tracking,      \* table yandex_tracking: a set of rows
    nextTrackingId,
    conversions,   \* table yandex_conversions: a set of rows
    nextConversionId,
    requests,      \* bag of the requests made to the collector, with their outcome
    dbFaults,      \* how many inserts the database refused for another reason
    runs,          \* per (user_id, payment_id): results of the completed chain runs
    task,          \* per task: the request it serves and its position in it
    schema_migrations,  \* table schema_migrations: the ids, in insertion order
    schema,        \* the tables, columns and indexes the database has
    executed,      \* per migration id: how often its upgrade ran to its end
    migrate        \* run_database_migrations: its locals and its position

vars == <<now, ticks, ops, configured, tracking, nextTrackingId, conversions,
          nextConversionId, requests, dbFaults, runs, task,
          schema_migrations, schema, executed, migrate>>

store == <<tracking, nextTrackingId, conversions, nextConversionId>>

migration == <<schema_migrations, schema, executed, migrate>>

(***************************************************************************)
(* Rows, and the frame of a task: the arguments and locals of the request  *)
(* it serves, and what that request did so far (elapsed, closed, pv, ecom, *)
(* goal, saved, ret, pre: the store as the chain call found it; at,        *)
(* sent_at: the datetime.now() inside the statement built and not yet      *)
(* executed; written: the row that statement wrote; rows: the tracking     *)
(* rows the listing has still to look at).                                 *)
(***************************************************************************)
NoTime == -1       \* a NULL timestamp; no time taken yet
NoCount == -1      \* a NULL visit_count

\* No response: the request was not made.
NoResponse == [raised |-> "", status |-> 0]

NoTracking ==
    [tracking_id |-> 0, user_id |-> 0, yandex_client_id |-> <<>>,
     counter_id |-> "", first_visit_time |-> 0, last_visit_time |-> 0,
     visit_count |-> 0, created_at |-> 0]

Pairs == {<<p.user_id, str(p.payment_id)>> : p \in Payments}

Idle ==
    [op |-> "idle", pc |-> "idle", user |-> 0, payment |-> "", amount |-> 0,
     client_id |-> <<>>, counter |-> "", days |-> 0, tr |-> NoTracking, elapsed |-> NoTime, closed |-> FALSE,
     pv |-> "none", ecom |-> "none", goal |-> "none", saved |-> "none",
     ret |-> "none", resp |-> NoResponse,
     result |-> "none", count |-> 0, queue |-> <<>>, calls |-> <<>>,
     tally |-> [processed |-> 0, success |-> 0, failed |-> 0],
     written |-> 0, at |-> NoTime, sent_at |-> NoTime, rows |-> <<>>,
     pre |-> [tracking |-> {}, conversions |-> {}]]

\* The row create_yandex_tracking inserts (DAL, lines 45-56).
new_tracking(id, user_id, client_id, counter_id, n) ==
    [tracking_id |-> id, user_id |-> user_id, yandex_client_id |-> client_id,
     counter_id |-> counter_id, first_visit_time |-> n, last_visit_time |-> n,
     visit_count |-> 1, created_at |-> n]

\* MIGRATIONS (db/migrator.py, lines 139-150): the ids, in the list's order.
MIGRATIONS == <<"0001_add_channel_subscription_fields", "0002_yandex_tracking">>

\* run_database_migrations is not running: `n` runs were made, in which
\* `faults` statements raised; `failed` is the migration the last run ended
\* at with an exception.
IdleRun ==
    [pc |-> "idle", applied_revisions |-> {}, i |-> 0,
     savepoint |-> [schema |-> {}, tracking |-> {}],
     applied |-> <<>>, faulted |-> {}, raised |-> "", failed |-> "",
     n |-> 0, faults |-> 0]

\* The service runs over a database whose migrations are not looked at.
NoMigration ==
    /\ schema_migrations = <<>>
    /\ schema = {}
    /\ executed = [id \in {MIGRATIONS[k] : k \in 1..Len(MIGRATIONS)} |-> 0]
    /\ migrate = IdleRun

\* The service starts over the database as it is: empty, or with user 1
\* tracked by an earlier create_yandex_tracking.
InitialTracking == {{}, {new_tracking(1, 1, CidGood, COUNTER_ID, 0)}}

Init ==
    /\ now = 0
    /\ ticks = 0
    /\ ops = 0
    /\ configured \in BOOLEAN
    /\ tracking \in InitialTracking
    /\ nextTrackingId = Cardinality(tracking) + 1
    /\ conversions = {}
    /\ nextConversionId = 1
    /\ requests = EmptyBag
    /\ dbFaults = 0
    /\ NoMigration
    /\ runs = [pr \in Pairs |-> <<>>]
    /\ task = [t \in Tasks |-> Idle]

(***************************************************************************)
(* The clock.                                                              *)
(***************************************************************************)
Tick ==
    /\ ticks < MaxTicks
    /\ \E d \in TickSteps : now' = now + d
    /\ ticks' = ticks + 1
    /\ UNCHANGED <<ops, configured, migration, store, requests, dbFaults, runs, task>>

(***************************************************************************)
(* The DAL: db/dal/yandex_tracking_dal.py.                                 *)
(***************************************************************************)

\* Mutant: ORDER BY created_at ASC.
get_tracking_oldest(T, user_id) ==
    LET own == {r \in T : r.user_id = user_id}
        oldest == {r \in own : \A q \in own : r.created_at <= q.created_at}
    IN  IF own = {} THEN {NoTracking} ELSE oldest

\* get_tracking_by_user_id: ORDER BY created_at DESC LIMIT 1.  The rows it may
\* return: the user's rows of the greatest created_at, or none.
get_tracking_by_user_id(T, user_id) ==
    LET own == {r \in T : r.user_id = user_id}
        latest == {r \in own : \A q \in own : q.created_at <= r.created_at}
    IN  IF own = {} THEN {NoTracking} ELSE latest

\* Mutant: the time of the visit is not written.
update_last_visit_skipped(T, tracking_id, n) == T

\* update_last_visit_time: UPDATE ... WHERE tracking_id = :id
update_last_visit_time(T, tracking_id, n) ==
    {IF r.tracking_id = tracking_id THEN [r EXCEPT !.last_visit_time = n] ELSE r
        : r \in T}

\* Mutant: the counter raised by two.
increment_twice(T, tracking_id) ==
    {IF r.tracking_id = tracking_id
     THEN [r EXCEPT !.visit_count = r.visit_count + 2] ELSE r
        : r \in T}

\* increment_visit_count: UPDATE ... SET visit_count = visit_count + 1; NULL
\* plus one is NULL.
increment_visit_count(T, tracking_id) ==
    {IF r.tracking_id = tracking_id /\ r.visit_count # NoCount
     THEN [r EXCEPT !.visit_count = r.visit_count + 1] ELSE r
        : r \in T}

\* Mutant: the duplicate check that never finds the conversion.
never_sent(C, user_id, payment_id) == FALSE

\* is_conversion_sent_for_payment
is_conversion_sent_for_payment(C, user_id, payment_id) ==
    \E c \in C : c.user_id = user_id /\ c.payment_id = payment_id

\* The mutant of the constraint: the table without its UNIQUE constraint.
uq_dropped(C, user_id, payment_id) == FALSE

\* CONSTRAINT uq_user_payment_conversion UNIQUE (user_id, payment_id):
\* whether inserting (user_id, payment_id) violates it.
uq_user_payment_conversion(C, user_id, payment_id) ==
    \E c \in C : c.user_id = user_id /\ c.payment_id = payment_id

\* save_conversion_record: what the flush of the new row does.
\*   "ok"   the row is inserted and returned
\*   "dup"  the flush raises on the UNIQUE constraint; caught, None returned
\*   "err"  the flush raises for another reason;        caught, None returned
save_outcome(C, user_id, payment_id, fault) ==
    IF fault THEN "err"
    ELSE IF uq_user_payment_conversion(C, user_id, payment_id) THEN "dup"
    ELSE "ok"

\* What save_conversion_record returns: the row, or None (lines 125-128).
save_returns(outcome) == IF outcome = "ok" THEN "row" ELSE "None"

\* Mutant: the insert replaces the user's earlier conversion rows.
save_replaces_user_rows(C, id, user_id, payment_id, amount, n, fault) ==
    IF save_outcome(C, user_id, payment_id, fault) = "ok"
    THEN {c \in C : c.user_id # user_id}
         \cup {[conversion_id |-> id, user_id |-> user_id,
                 payment_id |-> payment_id, amount |-> amount, sent_at |-> n]}
    ELSE C

save_conversion_record(C, id, user_id, payment_id, amount, n, fault) ==
    IF save_outcome(C, user_id, payment_id, fault) = "ok"
    THEN C \cup {[conversion_id |-> id, user_id |-> user_id,
                  payment_id |-> payment_id, amount |-> amount, sent_at |-> n]}
    ELSE C

\* Mutant: the DELETE does not look at the conversions.
cleanup_ignores_conversions(T, C, days, n) ==
    {r \in T : /\ r.last_visit_time # NoTime
               /\ r.last_visit_time < n - timedelta(days, 0, 0)}

\* cleanup_old_tracking: the rows the DELETE removes.
cleanup_deleted(T, C, days, n) ==
    {r \in T : /\ r.last_visit_time # NoTime
               /\ r.last_visit_time < n - timedelta(days, 0, 0)
               /\ r.user_id \notin {c.user_id : c \in C}}

(***************************************************************************)
(* The service: bot/services/yandex_metrika_service.py.                    *)
(***************************************************************************)
\* tracking.last_visit_time or tracking.first_visit_time
last_visit_of(tr) ==
    IF tr.last_visit_time # NoTime THEN tr.last_visit_time ELSE tr.first_visit_time

\* send_full_conversion_chain's test for opening a new visit (lines 268-274):
\* datetime.now() - last_visit raises TypeError when both times are NULL.
chain_needs_new_visit(tr, n) ==
    IF last_visit_of(tr) = NoTime THEN "TypeError"
    ELSE IF n - last_visit_of(tr) > timedelta(0, VISIT_COMPLETION_HOURS, 0)
    THEN "True" ELSE "False"

\* One request to the collector with its outcome (_send_request: status == 200).
Request(kind, cid, ti, ok) == [kind |-> kind, cid |-> cid, ti |-> ti, ok |-> ok]

Sent(r) == requests' = requests (+) SetToBag({r})

\* What session.get may come to in _send_request: a response with its status,
\* asyncio.TimeoutError, or another exception (lines 403-423).
Responses ==
    { [raised |-> "", status |-> 200],
      [raised |-> "", status |-> 204],
      [raised |-> "", status |-> 500],
      [raised |-> "TimeoutError", status |-> 0],
      [raised |-> "ClientError", status |-> 0] }

\* Mutant: every 2xx status counts as success.
send_request_2xx(resp) ==
    IF resp.raised # "" THEN FALSE
    ELSE resp.status >= 200 /\ resp.status < 300

\* _send_request: success = response.status == 200; an exception gives False
send_request(resp) ==
    IF resp.raised # "" THEN FALSE
    ELSE resp.status = 200

\* A task is free when it serves no request; a request is served by the first
\* free task.
Running(t) == task[t].pc # "idle"

Before(t) ==
    CASE t = "t1" -> {} [] t = "t2" -> {"t1"} [] t = "t3" -> {"t1", "t2"}

Free(t) == ~Running(t) /\ \A o \in Before(t) : Running(o)

\* A request that has its result ("done"), or that an exception ends
\* ("raised"), returns to its caller before anything else runs: no await lies
\* between the last statement and the return.
Returning == \E t \in Tasks : task[t].pc \in {"done", "raised"}

Return(t) ==
    /\ task[t].pc \in {"done", "raised"}
    /\ task' = [task EXCEPT ![t] = Idle]
    /\ UNCHANGED <<now, ticks, ops, configured, migration, store, requests, dbFaults, runs>>

\* A chain call made by the resend batch, with how it ended.
Call(fr, res) == [user |-> fr.user, payment |-> fr.payment, result |-> res]

\* Mutant: the batch counts the successful runs only.
ChainReturnCountsSuccessOnly(t, fr, res) ==
    /\ task' = [task EXCEPT ![t] =
           IF fr.op = "resend"
           THEN [fr EXCEPT !.pc = "resend_sleep", !.result = res,
                           !.tally.success = @ + (IF res = "true" THEN 1 ELSE 0),
                           !.calls = Append(@, Call(fr, res))]
           ELSE [fr EXCEPT !.pc = "done", !.result = res]]
    /\ runs' = [runs EXCEPT ![<<fr.user, fr.payment>>] = Append(@, res)]

\* The chain returns `res`: the run is complete.
\* To a direct caller, or to resend_missing_conversions, which counts it
\* (lines 372-375) and sleeps.
ChainReturn(t, fr, res) ==
    /\ task' = [task EXCEPT ![t] =
           IF fr.op = "resend"
           THEN [fr EXCEPT !.pc = "resend_sleep", !.result = res,
                           !.tally.success = @ + (IF res = "true" THEN 1 ELSE 0),
                           !.tally.failed = @ + (IF res = "true" THEN 0 ELSE 1),
                           !.calls = Append(@, Call(fr, res))]
           ELSE [fr EXCEPT !.pc = "done", !.result = res]]
    /\ runs' = [runs EXCEPT ![<<fr.user, fr.payment>>] = Append(@, res)]

\* send_full_conversion_chain is called for a succeeded payment (lines 251-255).
StartChain(t, p) ==
    /\ Free(t)
    /\ p.status = "succeeded"
    /\ ops' = ops + 1
    /\ LET fr == [Idle EXCEPT !.op = "chain", !.pc = "get_tracking",
                              !.user = p.user_id, !.payment = str(p.payment_id),
                              !.amount = p.amount,
                              !.pre = [tracking |-> tracking,
                                       conversions |-> conversions]]
       IN  IF ~configured
           THEN ChainReturn(t, fr, "false")
           ELSE /\ task' = [task EXCEPT ![t] = fr]
                /\ UNCHANGED runs
    /\ UNCHANGED <<now, ticks, configured, migration, store, requests, dbFaults>>

\* The frame of the chain call for the first payment of the first user queued.
NextCall(fr) ==
    [fr EXCEPT !.pc = "get_tracking",
               !.user = Head(fr.queue).user_id,
               !.payment = Head(Head(fr.queue).payments).payment_id,
               !.amount = Head(Head(fr.queue).payments).amount,
               !.tr = NoTracking, !.elapsed = NoTime, !.closed = FALSE,
               !.pv = "none", !.ecom = "none", !.goal = "none",
               !.saved = "none", !.ret = "none",
               !.result = "none", !.written = 0, !.at = NoTime,
               !.sent_at = NoTime,
               !.pre = [tracking |-> tracking, conversions |-> conversions]]

\* The batch after its last chain call: the call's locals are gone.
AfterCalls(fr) ==
    [Idle EXCEPT !.op = fr.op, !.pc = "resend_commit", !.count = fr.count,
                 !.tally = fr.tally, !.calls = fr.calls]

\* A statement of the chain raises.  No handler in the chain: the exception
\* ends a direct call; in the resend batch the handler of lines 380-382 counts
\* it as failed and the loop goes on with the next user.
ChainRaise(fr) ==
    IF fr.op = "resend"
    THEN LET counted == [fr EXCEPT !.tally.failed = @ + 1,
                                   !.calls = Append(@, Call(fr, "raised"))]
         IN  IF Tail(fr.queue) # <<>>
             THEN [NextCall([counted EXCEPT !.queue = Tail(fr.queue)])
                      EXCEPT !.tally.processed = @ + 1]
             ELSE AfterCalls(counted)
    ELSE [fr EXCEPT !.pc = "raised", !.result = "raised"]

\* Mutant: the chain goes on without a tracking row.
ChainGetTrackingNoCheck(t, fault) ==
    /\ task[t].pc = "get_tracking"
    /\ IF fault
       THEN task' = [task EXCEPT ![t] = ChainRaise(task[t])]
       ELSE \E tr \in get_tracking_by_user_id(tracking, task[t].user) :
               task' = [task EXCEPT ![t].tr = tr, ![t].pc = "check_sent"]
    /\ UNCHANGED <<now, ticks, ops, configured, migration, store, requests, dbFaults, runs>>

\* await get_tracking_by_user_id (lines 255-261); `fault`: the statement raises
ChainGetTracking(t, fault) ==
    /\ task[t].pc = "get_tracking"
    /\ IF fault
       THEN /\ task' = [task EXCEPT ![t] = ChainRaise(task[t])]
            /\ UNCHANGED runs
       ELSE \E tr \in get_tracking_by_user_id(tracking, task[t].user) :
               IF tr = NoTracking
               THEN ChainReturn(t, task[t], "false")
               ELSE /\ task' = [task EXCEPT ![t].tr = tr, ![t].pc = "check_sent"]
                    /\ UNCHANGED runs
    /\ UNCHANGED <<now, ticks, ops, configured, migration, store, requests, dbFaults>>

\* await is_conversion_sent_for_payment, then the session test and, for a
\* closed session, send_pageview up to its request (lines 261-282, 123-145).
\* The session test raises for a row without a time; no handler in the chain.
ChainCheckSent(t) ==
    /\ task[t].pc = "check_sent"
    /\ LET need == chain_needs_new_visit(task[t].tr, now)
           fr == [task[t] EXCEPT !.elapsed =
                     IF need = "TypeError" THEN NoTime
                     ELSE now - last_visit_of(task[t].tr)]
       IN
       IF is_conversion_sent_for_payment(conversions, fr.user, fr.payment)
       THEN ChainReturn(t, task[t], "true")
       ELSE IF need = "TypeError"
       THEN /\ task' = [task EXCEPT ![t] = ChainRaise(task[t])]
            /\ UNCHANGED runs
       ELSE IF need = "True"
       THEN IF ~validate_client_id(fr.tr.yandex_client_id)
            THEN ChainReturn(t, [fr EXCEPT !.closed = TRUE, !.pv = "invalid"], "false")
            ELSE /\ task' = [task EXCEPT ![t] =
                                [fr EXCEPT !.closed = TRUE, !.pc = "pageview"]]
                 /\ UNCHANGED runs
       ELSE /\ task' = [task EXCEPT ![t] = [fr EXCEPT !.pc = "ecommerce"]]
            /\ UNCHANGED runs
    /\ UNCHANGED <<now, ticks, ops, configured, migration, store, requests, dbFaults>>

\* Mutant: the chain goes on after a failed pageview.
ChainPageviewNoAbort(t, ok) ==
    /\ task[t].pc = "pageview"
    /\ Sent(Request("pageview", strip(task[t].tr.yandex_client_id), "", ok))
    /\ task' = [task EXCEPT ![t].pv = IF ok THEN "ok" ELSE "fail",
                            ![t].at = now,
                            ![t].pc = "update_last_visit"]
    /\ UNCHANGED <<now, ticks, ops, configured, migration, store, dbFaults, runs>>

\* await _send_request(params, "pageview"), then update_last_visit_time up to
\* its UPDATE, built with datetime.now() (lines 278-289; DAL lines 85-89)
ChainPageview(t, ok) ==
    /\ task[t].pc = "pageview"
    /\ Sent(Request("pageview", strip(task[t].tr.yandex_client_id), "", ok))
    /\ IF ok
       THEN /\ task' = [task EXCEPT ![t].pv = "ok", ![t].at = now,
                                    ![t].pc = "update_last_visit"]
            /\ UNCHANGED runs
       ELSE ChainReturn(t, [task[t] EXCEPT !.pv = "fail"], "false")
    /\ UNCHANGED <<now, ticks, ops, configured, migration, store, dbFaults>>

\* await update_last_visit_time (line 289): the UPDATE executes (DAL line 90)
ChainUpdateLastVisit(t) ==
    /\ task[t].pc = "update_last_visit"
    /\ tracking' = update_last_visit_time(tracking, task[t].tr.tracking_id,
                                          task[t].at)
    /\ task' = [task EXCEPT ![t].pc = "increment_visit_count"]
    /\ UNCHANGED <<now, ticks, ops, configured, migration, nextTrackingId, conversions,
                   nextConversionId, requests, dbFaults, runs>>

\* await increment_visit_count (line 290); then asyncio.sleep(0.5) (line 293),
\* an await that changes nothing
ChainIncrementVisitCount(t) ==
    /\ task[t].pc = "increment_visit_count"
    /\ tracking' = increment_visit_count(tracking, task[t].tr.tracking_id)
    /\ task' = [task EXCEPT ![t].pc = "ecommerce"]
    /\ UNCHANGED <<now, ticks, ops, configured, migration, nextTrackingId, conversions,
                   nextConversionId, requests, dbFaults, runs>>

\* Mutant: the conversion is saved right after the ecommerce send.
ChainEcommerceSkipsGoal(t, ok) ==
    /\ task[t].pc = "ecommerce"
    /\ Sent(Request("ecommerce", task[t].tr.yandex_client_id, task[t].payment, ok))
    /\ IF ok
       THEN /\ task' = [task EXCEPT ![t].ecom = "ok", ![t].sent_at = now,
                                    ![t].pc = "save"]
            /\ UNCHANGED runs
       ELSE ChainReturn(t, [task[t] EXCEPT !.ecom = "fail"], "false")
    /\ UNCHANGED <<now, ticks, ops, configured, migration, store, dbFaults>>

\* Mutant: the chain goes on after a failed ecommerce send.
ChainEcommerceNoAbort(t, ok) ==
    /\ task[t].pc = "ecommerce"
    /\ Sent(Request("ecommerce", task[t].tr.yandex_client_id, task[t].payment, ok))
    /\ task' = [task EXCEPT ![t].ecom = IF ok THEN "ok" ELSE "fail",
                            ![t].pc = "goal"]
    /\ UNCHANGED <<now, ticks, ops, configured, migration, store, dbFaults, runs>>

\* await send_ecommerce_purchase (lines 295-317, 194-237, 337-339)
ChainEcommerce(t, ok) ==
    /\ task[t].pc = "ecommerce"
    /\ Sent(Request("ecommerce", task[t].tr.yandex_client_id, task[t].payment, ok))
    /\ IF ok
       THEN /\ task' = [task EXCEPT ![t].ecom = "ok", ![t].pc = "goal"]
            /\ UNCHANGED runs
       ELSE ChainReturn(t, [task[t] EXCEPT !.ecom = "fail"], "false")
    /\ UNCHANGED <<now, ticks, ops, configured, migration, store, dbFaults>>

\* Mutant: a failed goal send aborts the chain.
ChainGoalAborts(t, ok) ==
    /\ task[t].pc = "goal"
    /\ validate_client_id(task[t].tr.yandex_client_id)
    /\ Sent(Request("goal", strip(task[t].tr.yandex_client_id), "", ok))
    /\ IF ok
       THEN /\ task' = [task EXCEPT ![t].goal = "ok", ![t].sent_at = now,
                                    ![t].pc = "save"]
            /\ UNCHANGED runs
       ELSE ChainReturn(t, [task[t] EXCEPT !.goal = "fail"], "false")
    /\ UNCHANGED <<now, ticks, ops, configured, migration, store, dbFaults>>

\* await asyncio.sleep(0.5), then await send_conversion (lines 319-325,
\* 157-180), then save_conversion_record up to its flush: the row is built
\* with sent_at = datetime.now() (DAL lines 116-123)
ChainGoal(t, ok) ==
    /\ task[t].pc = "goal"
    /\ IF ~validate_client_id(task[t].tr.yandex_client_id)
       THEN /\ ok
            /\ task' = [task EXCEPT ![t].goal = "invalid",
                                    ![t].sent_at = now, ![t].pc = "save"]
            /\ UNCHANGED requests
       ELSE /\ Sent(Request("goal", strip(task[t].tr.yandex_client_id), "", ok))
            /\ task' = [task EXCEPT ![t].goal = IF ok THEN "ok" ELSE "fail",
                                    ![t].sent_at = now, ![t].pc = "save"]
    /\ UNCHANGED <<now, ticks, ops, configured, migration, store, dbFaults, runs>>

\* await session.flush() of save_conversion_record (DAL line 123): the INSERT
\* of the row built before.  A flush that raises is caught: None is returned
\* and the chain returns True (DAL lines 126-128; service lines 328-336).
ChainSave(t, fault) ==
    /\ task[t].pc = "save"
    /\ LET fr == task[t]
           out == save_outcome(conversions, fr.user, fr.payment, fault)
       IN  /\ conversions' = save_conversion_record(conversions, nextConversionId,
                                 fr.user, fr.payment, fr.amount, fr.sent_at,
                                 fault)
           /\ nextConversionId' = IF out = "ok" THEN nextConversionId + 1
                                  ELSE nextConversionId
           /\ dbFaults' = IF fault THEN dbFaults + 1 ELSE dbFaults
           /\ IF out = "ok"
              THEN /\ task' = [task EXCEPT ![t] =
                         [fr EXCEPT !.saved = out, !.written = nextConversionId,
                                    !.pc = "save_refresh"]]
                   /\ UNCHANGED runs
              ELSE ChainReturn(t, [fr EXCEPT !.saved = out,
                                             !.ret = save_returns(out)], "true")
    /\ UNCHANGED <<now, ticks, ops, configured, migration, tracking, nextTrackingId, requests>>

\* await session.refresh(conversion) (DAL line 124); the row, or None when the
\* refresh raises for a row that is gone, is returned and the chain returns
\* True (service lines 328-336).
ChainSaveRefresh(t) ==
    /\ task[t].pc = "save_refresh"
    /\ ChainReturn(t, [task[t] EXCEPT !.ret =
                          IF \E c \in conversions :
                                c.conversion_id = task[t].written
                          THEN save_returns("ok") ELSE "None"], "true")
    /\ UNCHANGED <<now, ticks, ops, configured, migration, store, requests, dbFaults>>

(***************************************************************************)
(* The send operations called on their own: send_pageview (lines 114-145), *)
(* send_conversion (147-180) and send_ecommerce_purchase (182-237).        *)
(***************************************************************************)
SendOps == {"send_pageview", "send_conversion", "send_ecommerce_purchase"}

\* The transactions a caller other than the chain sends a purchase for: the
\* payments the chain is not run for.
OwnSends == {p \in Payments : p.status # "succeeded"}

\* Mutant: the send operations do not look at `configured`.
send_rejects_invalid_only(op, client_id) ==
    op # "send_ecommerce_purchase" /\ ~validate_client_id(client_id)

\* The early returns of the send operations: not configured (lines 123, 157,
\* 194); invalid client id (lines 127, 160), which send_ecommerce_purchase
\* does not test.
send_rejects(op, client_id) ==
    \/ ~configured
    \/ op # "send_ecommerce_purchase" /\ ~validate_client_id(client_id)

\* The request a send operation builds: its 't'/'pa' kind, 'cid' and 'ti'.
send_params(op, client_id, ti, ok) ==
    CASE op = "send_pageview"   -> Request("pageview", strip(client_id), "", ok)
      [] op = "send_conversion" -> Request("goal", strip(client_id), "", ok)
      [] op = "send_ecommerce_purchase" -> Request("ecommerce", client_id, ti, ok)

\* A send operation is called; it returns False at once or goes to its request.
StartSend(t, op, client_id, ti) ==
    /\ Free(t)
    /\ ops' = ops + 1
    /\ LET fr == [Idle EXCEPT !.op = op, !.client_id = client_id,
                              !.payment = IF op = "send_ecommerce_purchase"
                                          THEN ti ELSE "",
                              !.pre = [tracking |-> tracking,
                                       conversions |-> conversions]]
       IN  task' = [task EXCEPT ![t] =
               IF send_rejects(op, client_id)
               THEN [fr EXCEPT !.pc = "done", !.result = "false"]
               ELSE [fr EXCEPT !.pc = "request"]]
    /\ UNCHANGED <<now, ticks, configured, migration, store, requests, dbFaults, runs>>

\* return await self._send_request(params, ...) (lines 145, 180, 237, 397-423)
SendRequest(t, resp) ==
    /\ task[t].pc = "request"
    /\ Sent(send_params(task[t].op, task[t].client_id, task[t].payment,
                        send_request(resp)))
    /\ task' = [task EXCEPT ![t].pc = "done", ![t].resp = resp,
                            ![t].result = IF send_request(resp)
                                          THEN "true" ELSE "false"]
    /\ UNCHANGED <<now, ticks, ops, configured, migration, store, dbFaults, runs>>

(***************************************************************************)
(* create_yandex_tracking (the upsert), lines 13-62 of the DAL.  Its read  *)
(* of the existing row, its write, its refresh and the rollback of its     *)
(* handler are awaits of their own; the times it writes are taken when the *)
(* statement is built, before the await that executes it.                  *)
(***************************************************************************)
StartUpsert(t, user_id, client_id, counter_id) ==
    /\ Free(t)
    /\ ops' = ops + 1
    /\ task' = [task EXCEPT ![t] =
                   [Idle EXCEPT !.op = "upsert", !.pc = "upsert_read",
                                !.user = user_id, !.client_id = client_id,
                                !.counter = counter_id,
                                !.pre = [tracking |-> tracking,
                                         conversions |-> conversions]]]
    /\ UNCHANGED <<now, ticks, configured, migration, store, requests, dbFaults, runs>>

\* Mutant: the UPDATE lets the database add one to visit_count.
upsert_update_atomic(T, existing, user_id, client_id, counter_id, n) ==
    {IF r.user_id = user_id
     THEN [r EXCEPT !.yandex_client_id = client_id, !.counter_id = counter_id,
                    !.last_visit_time = n,
                    !.visit_count = r.visit_count + 1]
     ELSE r
        : r \in T}

\* Mutant: the UPDATE leaves counter_id as it was.
upsert_update_keeps_counter(T, existing, user_id, client_id, counter_id, n) ==
    {IF r.user_id = user_id
     THEN [r EXCEPT !.yandex_client_id = client_id,
                    !.last_visit_time = n,
                    !.visit_count = existing.visit_count + 1]
     ELSE r
        : r \in T}

\* The UPDATE of lines 27-37: every row of the user gets the new client id, the
\* time and the visit count computed from the row read before.
upsert_update(T, existing, user_id, client_id, counter_id, n) ==
    {IF r.user_id = user_id
     THEN [r EXCEPT !.yandex_client_id = client_id, !.counter_id = counter_id,
                    !.last_visit_time = n,
                    !.visit_count = existing.visit_count + 1]
     ELSE r
        : r \in T}

\* create_yandex_tracking returns `res` to its caller: a direct caller, or
\* track_visit, which goes on to the first pageview if it got a row (service,
\* lines 98-112).
UpsertReturn(fr, res) ==
    IF fr.op = "track_visit"
    THEN IF res = "tracking"
         THEN [fr EXCEPT !.pc = "tv_first_pageview"]
         ELSE [fr EXCEPT !.pc = "done", !.result = "false"]
    ELSE [fr EXCEPT !.pc = "done", !.result = res]

\* existing = await get_tracking_by_user_id(session, user_id), then up to the
\* next await (lines 23-37, 40-55): a row that holds the client id is returned
\* at once; for another row the UPDATE is built, with datetime.now() and
\* existing.visit_count + 1, which raises for a NULL visit_count; without a
\* row the new row is built.
UpsertRead(t) ==
    /\ task[t].pc = "upsert_read"
    /\ \E tr \in get_tracking_by_user_id(tracking, task[t].user) :
          LET fr == [task[t] EXCEPT !.tr = tr] IN
          task' = [task EXCEPT ![t] =
              IF tr # NoTracking /\ tr.yandex_client_id = fr.client_id
              THEN UpsertReturn(fr, "tracking")
              ELSE IF tr # NoTracking /\ tr.visit_count = NoCount
              THEN [fr EXCEPT !.pc = "upsert_rollback"]
              ELSE [fr EXCEPT !.at = now, !.pc = "upsert_write"]]
    /\ UNCHANGED <<now, ticks, ops, configured, migration, store, requests, dbFaults, runs>>

\* await session.execute(stmt) (line 37) or await session.flush() (line 55):
\* the UPDATE of the user's rows or the INSERT, with the times the statement
\* was built with; created_at is the database's, at the INSERT.
UpsertWrite(t) ==
    /\ task[t].pc = "upsert_write"
    /\ LET fr == task[t]
           existing == fr.tr
       IN  IF existing # NoTracking
           THEN /\ tracking' = upsert_update(tracking, existing, fr.user,
                                   fr.client_id, fr.counter, fr.at)
                /\ task' = [task EXCEPT ![t] =
                      [fr EXCEPT !.pc = "upsert_refresh",
                                 !.written = existing.tracking_id]]
                /\ UNCHANGED nextTrackingId
           ELSE /\ tracking' = tracking \cup
                       {[new_tracking(nextTrackingId, fr.user, fr.client_id,
                                      fr.counter, fr.at)
                            EXCEPT !.created_at = now]}
                /\ nextTrackingId' = nextTrackingId + 1
                /\ task' = [task EXCEPT ![t] =
                      [fr EXCEPT !.pc = "upsert_refresh",
                                 !.written = nextTrackingId]]
    /\ UNCHANGED <<now, ticks, ops, configured, migration, conversions,
                   nextConversionId, requests, dbFaults, runs>>

\* The await that ends create_yandex_tracking: session.refresh (lines 38, 56)
\* and the return of the row, or, after an exception, session.rollback() and
\* return None (lines 59-62).  A row deleted since it was written makes the
\* refresh raise.
UpsertEnd(t) ==
    /\ task[t].pc \in {"upsert_refresh", "upsert_rollback"}
    /\ task' = [task EXCEPT ![t] =
          IF task[t].pc = "upsert_rollback"
          THEN UpsertReturn(task[t], "None")
          ELSE IF \E r \in tracking : r.tracking_id = task[t].written
          THEN UpsertReturn(task[t], "tracking")
          ELSE [task[t] EXCEPT !.pc = "upsert_rollback"]]
    /\ UNCHANGED <<now, ticks, ops, configured, migration, store, requests,
                   dbFaults, runs>>

(***************************************************************************)
(* track_visit (service, lines 52-112).                                    *)
(***************************************************************************)
\* Mutant: the window of the conversion chain, without the session timeout.
track_needs_new_visit_12h(tr, n) ==
    IF last_visit_of(tr) = NoTime THEN "TypeError"
    ELSE IF n - last_visit_of(tr) > timedelta(0, VISIT_COMPLETION_HOURS, 0)
    THEN "True" ELSE "False"

\* track_visit's test for opening a new visit (lines 72-76): datetime.now() -
\* last_visit raises TypeError when both times are NULL.
track_needs_new_visit(tr, n) ==
    IF last_visit_of(tr) = NoTime THEN "TypeError"
    ELSE IF n - last_visit_of(tr) >
               timedelta(0, VISIT_COMPLETION_HOURS, SESSION_TIMEOUT_MINUTES)
    THEN "True" ELSE "False"

\* lines 64-65
StartTrackVisit(t, user_id, client_id) ==
    /\ Free(t)
    /\ ops' = ops + 1
    /\ LET fr == [Idle EXCEPT !.op = "track_visit", !.user = user_id,
                              !.client_id = client_id,
                              !.counter = COUNTER_ID,
                              !.pre = [tracking |-> tracking,
                                       conversions |-> conversions]]
       IN  task' = [task EXCEPT ![t] =
               IF ~configured \/ ~validate_client_id(client_id)
               THEN [fr EXCEPT !.pc = "done", !.result = "false"]
               ELSE [fr EXCEPT !.pc = "tv_get_tracking"]]
    /\ UNCHANGED <<now, ticks, configured, migration, store, requests, dbFaults, runs>>

\* await get_tracking_by_user_id, then the session test; for a closed session
\* send_pageview up to its request; without a row, create_yandex_tracking up
\* to its read (lines 68-98).  The session test raises for a row without a
\* time; track_visit has no handler.
TrackGetTracking(t) ==
    /\ task[t].pc = "tv_get_tracking"
    /\ \E tr \in get_tracking_by_user_id(tracking, task[t].user) :
          task' = [task EXCEPT ![t] =
              IF tr = NoTracking
              THEN [task[t] EXCEPT !.pc = "upsert_read"]
              ELSE IF track_needs_new_visit(tr, now) = "TypeError"
              THEN [task[t] EXCEPT !.tr = tr, !.pc = "raised",
                                   !.result = "raised"]
              ELSE IF track_needs_new_visit(tr, now) = "True"
              THEN [task[t] EXCEPT !.tr = tr, !.closed = TRUE,
                                   !.elapsed = now - last_visit_of(tr),
                                   !.pc = "tv_pageview"]
              ELSE [task[t] EXCEPT !.tr = tr,
                                   !.elapsed = now - last_visit_of(tr),
                                   !.pc = "done", !.result = "true"]]
    /\ UNCHANGED <<now, ticks, ops, configured, migration, store, requests, dbFaults, runs>>

\* Mutant: the visit is recorded whatever the pageview gave.
TrackPageviewNoAbort(t, ok) ==
    /\ task[t].pc = "tv_pageview"
    /\ Sent(Request("pageview", strip(task[t].client_id), "", ok))
    /\ task' = [task EXCEPT ![t].pv = IF ok THEN "ok" ELSE "fail",
                            ![t].at = now,
                            ![t].pc = "tv_update_last_visit"]
    /\ UNCHANGED <<now, ticks, ops, configured, migration, store, dbFaults, runs>>

\* await send_pageview for the new visit, then update_last_visit_time up to
\* its UPDATE, built with datetime.now() (lines 78-91; DAL lines 85-89)
TrackPageview(t, ok) ==
    /\ task[t].pc = "tv_pageview"
    /\ Sent(Request("pageview", strip(task[t].client_id), "", ok))
    /\ task' = [task EXCEPT ![t] =
           IF ok
           THEN [task[t] EXCEPT !.pv = "ok", !.at = now,
                                !.pc = "tv_update_last_visit"]
           ELSE [task[t] EXCEPT !.pv = "fail", !.pc = "done",
                                !.result = "false"]]
    /\ UNCHANGED <<now, ticks, ops, configured, migration, store, dbFaults, runs>>

\* await update_last_visit_time (line 87): the UPDATE executes (DAL line 90)
TrackUpdateLastVisit(t) ==
    /\ task[t].pc = "tv_update_last_visit"
    /\ tracking' = update_last_visit_time(tracking, task[t].tr.tracking_id,
                                          task[t].at)
    /\ task' = [task EXCEPT ![t].pc = "tv_increment_visit_count"]
    /\ UNCHANGED <<now, ticks, ops, configured, migration, nextTrackingId, conversions,
                   nextConversionId, requests, dbFaults, runs>>

\* await increment_visit_count; return success (lines 89-91)
TrackIncrementVisitCount(t) ==
    /\ task[t].pc = "tv_increment_visit_count"
    /\ tracking' = increment_visit_count(tracking, task[t].tr.tracking_id)
    /\ task' = [task EXCEPT ![t].pc = "done", ![t].result = "true"]
    /\ UNCHANGED <<now, ticks, ops, configured, migration, nextTrackingId, conversions,
                   nextConversionId, requests, dbFaults, runs>>

\* Mutant: the first visit is reported as tracked whatever the pageview gave.
TrackFirstPageviewAlwaysTrue(t, ok) ==
    /\ task[t].pc = "tv_first_pageview"
    /\ Sent(Request("pageview", strip(task[t].client_id), "", ok))
    /\ task' = [task EXCEPT ![t].pv = IF ok THEN "ok" ELSE "fail",
                            ![t].pc = "done",
                            ![t].result = "true"]
    /\ UNCHANGED <<now, ticks, ops, configured, migration, store, dbFaults, runs>>

\* await send_pageview for the first visit; return success (lines 102-110)
TrackFirstPageview(t, ok) ==
    /\ task[t].pc = "tv_first_pageview"
    /\ Sent(Request("pageview", strip(task[t].client_id), "", ok))
    /\ task' = [task EXCEPT ![t].pv = IF ok THEN "ok" ELSE "fail",
                            ![t].pc = "done",
                            ![t].result = IF ok THEN "true" ELSE "false"]
    /\ UNCHANGED <<now, ticks, ops, configured, migration, store, dbFaults, runs>>

(***************************************************************************)
(* cleanup_old_tracking (DAL, lines 261-281): the cutoff is taken when the *)
(* function is called, the DELETE executes at its await.                   *)
(***************************************************************************)
\* lines 266-279: cutoff_date = datetime.now() - timedelta(days); the DELETE
\* is built
Cleanup(t, days) ==
    /\ Free(t)
    /\ ops' = ops + 1
    /\ task' = [task EXCEPT ![t] =
                   [Idle EXCEPT !.op = "cleanup", !.pc = "cleanup_delete",
                                !.days = days, !.at = now,
                                !.pre = [tracking |-> tracking,
                                         conversions |-> conversions]]]
    /\ UNCHANGED <<now, ticks, configured, migration, store, requests, dbFaults, runs>>

\* await session.execute(stmt); return result.rowcount (lines 280-281)
CleanupDelete(t) ==
    /\ task[t].pc = "cleanup_delete"
    /\ LET del == cleanup_deleted(tracking, conversions, task[t].days,
                                  task[t].at)
       IN  /\ tracking' = tracking \ del
           /\ task' = [task EXCEPT ![t].pc = "done",
                                   ![t].count = Cardinality(del)]
    /\ UNCHANGED <<now, ticks, ops, configured, migration, nextTrackingId,
                   conversions, nextConversionId, requests, dbFaults, runs>>

(***************************************************************************)
(* resend_missing_conversions (service, lines 341-385) over                *)
(* get_users_with_untracked_payments (DAL, lines 147-200).                 *)
(***************************************************************************)
Limits == {1, 50}            \* limit arguments tried for the resend batch

\* A set of rows as the sequence an ORDER BY on `key` returns it.
RECURSIVE rows_by(_, _)
rows_by(S, key) ==
    IF S = {} THEN <<>>
    ELSE LET r == CHOOSE x \in S : \A y \in S : key[x] <= key[y]
         IN  <<r>> \o rows_by(S \ {r}, key)

\* SELECT yandex_tracking without an ORDER BY (lines 156-158): the rows in
\* any order, the database's choice.
tracking_rows(T) ==
    {f \in [1..Cardinality(T) -> T] :
        \A i, j \in 1..Cardinality(T) : i # j => f[i] # f[j]}

\* ORDER BY Payment.created_at DESC: payments are created in payment_id order.
payment_rows(P) == rows_by(P, [p \in P |-> 0 - p.payment_id])

\* trackings[:limit]
take(seq, n) == SubSeq(seq, 1, IF Len(seq) < n THEN Len(seq) ELSE n)

\* The succeeded payments of a user with no conversion row of that user.
untracked_payments(C, user_id) ==
    {p \in Payments :
        /\ p.user_id = user_id
        /\ p.status = "succeeded"
        /\ str(p.payment_id) \notin
              {c.payment_id : c \in {x \in C : x.user_id = user_id}}}

\* The list of lines 188-197 for the payments selected, latest first.
payment_items(ps) ==
    [i \in 1..Cardinality(ps) |->
        [payment_id |-> str(payment_rows(ps)[i].payment_id),
         amount |-> payment_rows(ps)[i].amount]]

\* result[tracking.user_id] = {...} (line 186), the dictionary as the sequence
\* of its items: a key keeps the place of its first assignment.
dict_set(d, user_id, payments) ==
    IF \E i \in 1..Len(d) : d[i].user_id = user_id
    THEN [i \in 1..Len(d) |->
             IF d[i].user_id = user_id
             THEN [user_id |-> user_id, payments |-> payments]
             ELSE d[i]]
    ELSE Append(d, [user_id |-> user_id, payments |-> payments])

\* lines 349-352
StartResend(t, limit) ==
    /\ Free(t)
    /\ Cardinality({o \in Tasks : task[o].op = "resend"}) < MaxResends
    /\ ops' = ops + 1
    /\ task' = [task EXCEPT ![t] =
           IF ~configured
           THEN [Idle EXCEPT !.op = "resend", !.pc = "done",
                             !.result = "tally",
                             !.pre = [tracking |-> tracking,
                                      conversions |-> conversions]]
           ELSE [Idle EXCEPT !.op = "resend", !.pc = "resend_list",
                             !.count = limit]]
    /\ UNCHANGED <<now, ticks, configured, migration, store, requests, dbFaults, runs>>

\* get_users_with_untracked_payments, its first statement: the SELECT of the
\* tracking rows and trackings[:limit] (DAL lines 156-162).  `fault`: the
\* statement raises; no handler.
ResendList(t, fault) ==
    /\ task[t].pc = "resend_list"
    /\ \E trackings \in tracking_rows(tracking) :
          LET rows == take(trackings, task[t].count)
          IN  task' = [task EXCEPT ![t] =
                  IF fault
                  THEN [task[t] EXCEPT !.pc = "raised", !.result = "raised"]
                  ELSE IF rows = <<>>
                  THEN [task[t] EXCEPT !.pc = "resend_commit"]
                  ELSE [task[t] EXCEPT !.pc = "resend_payments",
                                       !.rows = rows]]
    /\ UNCHANGED <<now, ticks, ops, configured, migration, store, requests, dbFaults, runs>>

\* One pass of the loop of DAL lines 162-198: the SELECT of the payments of
\* the next tracking row's user, and the user's entry.  After the last row
\* the dictionary is returned: the first user, its first payment (service
\* lines 355-363).  `fault`: the statement raises; no handler.
ResendPayments(t, fault) ==
    /\ task[t].pc = "resend_payments"
    /\ LET tr == Head(task[t].rows)
           ps == untracked_payments(conversions, tr.user_id)
           q  == IF ps = {} THEN task[t].queue
                 ELSE dict_set(task[t].queue, tr.user_id, payment_items(ps))
           fr == [task[t] EXCEPT !.queue = q, !.rows = Tail(task[t].rows)]
       IN  task' = [task EXCEPT ![t] =
               IF fault
               THEN [task[t] EXCEPT !.pc = "raised", !.result = "raised"]
               ELSE IF fr.rows # <<>>
               THEN fr
               ELSE IF q = <<>>
               THEN [fr EXCEPT !.pc = "resend_commit"]
               ELSE [NextCall(fr) EXCEPT !.tally.processed = @ + 1]]
    /\ UNCHANGED <<now, ticks, ops, configured, migration, store, requests, dbFaults, runs>>

\* await asyncio.sleep(0.5), then the user's next payment, the next user or
\* the end of the loop (lines 357-378)
ResendSleep(t) ==
    /\ task[t].pc = "resend_sleep"
    /\ LET fr == task[t]
           rest == Tail(Head(fr.queue).payments)
       IN  task' = [task EXCEPT ![t] =
               IF rest # <<>>
               THEN NextCall([fr EXCEPT !.queue[1].payments = rest])
               ELSE IF Tail(fr.queue) # <<>>
               THEN [NextCall([fr EXCEPT !.queue = Tail(fr.queue)])
                        EXCEPT !.tally.processed = @ + 1]
               ELSE AfterCalls(fr)]
    /\ UNCHANGED <<now, ticks, ops, configured, migration, store, requests, dbFaults, runs>>

\* await session.commit(); return results (lines 384-385).  `fault`: the
\* commit raises; no handler.
ResendCommit(t, fault) ==
    /\ task[t].pc = "resend_commit"
    /\ task' = [task EXCEPT ![t] =
           IF fault
           THEN [task[t] EXCEPT !.pc = "raised", !.result = "raised"]
           ELSE [task[t] EXCEPT !.pc = "done", !.result = "tally"]]
    /\ UNCHANGED <<now, ticks, ops, configured, migration, store, requests, dbFaults, runs>>

(***************************************************************************)
(* The system: requests arrive at any time and run concurrently (Spec), or *)
(* one after the other (SpecSeq).                                          *)
(***************************************************************************)
Start(t) ==
    \/ \E p \in Payments : p.user_id \in Users /\ StartChain(t, p)
    \/ \E u \in Users, c \in ClientIds, k \in CounterIds :
          StartUpsert(t, u, c, k)
    \/ \E d \in CleanupDays : Cleanup(t, d)
    \/ \E l \in Limits : StartResend(t, l)
    \/ \E u \in Users, c \in ClientIds : StartTrackVisit(t, u, c)
    \/ \E op \in SendOps, c \in ClientIds, p \in OwnSends :
          StartSend(t, op, c, str(p.payment_id))

\* The awaits of the requests.
Step(t) ==
    \/ \E fault \in BOOLEAN : ChainGetTracking(t, fault)
    \/ ChainCheckSent(t)
    \/ \E resp \in Responses : ChainPageview(t, send_request(resp))
    \/ ChainUpdateLastVisit(t)
    \/ ChainIncrementVisitCount(t)
    \/ \E resp \in Responses : ChainEcommerce(t, send_request(resp))
    \/ \E resp \in Responses : ChainGoal(t, send_request(resp))
    \/ \E fault \in BOOLEAN : ChainSave(t, fault)
    \/ ChainSaveRefresh(t)
    \/ CleanupDelete(t)
    \/ UpsertRead(t)
    \/ UpsertWrite(t)
    \/ UpsertEnd(t)
    \/ \E fault \in BOOLEAN : ResendList(t, fault)
    \/ \E fault \in BOOLEAN : ResendPayments(t, fault)
    \/ ResendSleep(t)
    \/ \E fault \in BOOLEAN : ResendCommit(t, fault)
    \/ \E resp \in Responses : SendRequest(t, resp)
    \/ TrackGetTracking(t)
    \/ \E resp \in Responses : TrackPageview(t, send_request(resp))
    \/ TrackUpdateLastVisit(t)
    \/ TrackIncrementVisitCount(t)
    \/ \E resp \in Responses : TrackFirstPageview(t, send_request(resp))

AllIdle == \A t \in Tasks : ~Running(t)

Next ==
    \/ (~Returning /\ Tick)
    \/ (~Returning /\ ops < MaxOps /\ \E t \in Tasks : Start(t))
    \/ (~Returning /\ \E t \in Tasks : Step(t))
    \/ (\E t \in Tasks : Return(t))

NextSeq ==
    \/ (~Returning /\ Tick)
    \/ (ops < MaxOpsSeq /\ AllIdle /\ \E t \in Tasks : Start(t))
    \/ (~Returning /\ \E t \in Tasks : Step(t))
    \/ (\E t \in Tasks : Return(t))

Spec == Init /\ [][Next]_vars

SpecSeq == Init /\ [][NextSeq]_vars

(***************************************************************************)
(* Requests for one user, up to MaxOpsRace of them served at the same      *)
(* time: create_yandex_tracking with client ids the row does not hold,     *)
(* track_visit and the conversion chain.  The frame of a request that has  *)
(* returned is kept.                                                       *)
(***************************************************************************)
RaceUser == 1
RacePayment == 1
RaceIds == {CidShort, CidLong}

RaceTickSteps == {780}       \* minutes the clock may advance by at once

TickRace ==
    /\ ticks < MaxTicksRace
    /\ \E d \in RaceTickSteps : now' = now + d
    /\ ticks' = ticks + 1
    /\ UNCHANGED <<ops, configured, migration, store, requests, dbFaults, runs, task>>

InitRace ==
    /\ now = 0
    /\ ticks = 0
    /\ ops = 0
    /\ configured = TRUE
    /\ tracking \in InitialTracking
    /\ nextTrackingId = Cardinality(tracking) + 1
    /\ conversions = {}
    /\ nextConversionId = 1
    /\ requests = EmptyBag
    /\ dbFaults = 0
    /\ NoMigration
    /\ runs = [pr \in Pairs |-> <<>>]
    /\ task = [t \in Tasks |-> Idle]

StartRace(t) ==
    \/ \E c \in RaceIds : StartUpsert(t, RaceUser, c, COUNTER_ID)
    \/ StartTrackVisit(t, RaceUser, CidGood)
    \/ \E p \in Payments :
          p.user_id = RaceUser /\ p.payment_id = RacePayment /\ StartChain(t, p)

StepRace(t) ==
    \/ \E fault \in BOOLEAN : ChainGetTracking(t, fault)
    \/ ChainCheckSent(t)
    \/ \E resp \in Responses : ChainPageview(t, send_request(resp))
    \/ ChainUpdateLastVisit(t)
    \/ ChainIncrementVisitCount(t)
    \/ \E resp \in Responses : ChainEcommerce(t, send_request(resp))
    \/ \E resp \in Responses : ChainGoal(t, send_request(resp))
    \/ \E fault \in BOOLEAN : ChainSave(t, fault)
    \/ ChainSaveRefresh(t)
    \/ UpsertRead(t)
    \/ UpsertWrite(t)
    \/ UpsertEnd(t)
    \/ TrackGetTracking(t)
    \/ \E resp \in Responses : TrackPageview(t, send_request(resp))
    \/ TrackUpdateLastVisit(t)
    \/ TrackIncrementVisitCount(t)
    \/ \E resp \in Responses : TrackFirstPageview(t, send_request(resp))

NextRace ==
    \/ TickRace
    \/ (ops < MaxOpsRace /\ \E t \in Tasks : StartRace(t))
    \/ (\E t \in Tasks : StepRace(t))

SpecRace == InitRace /\ [][NextRace]_vars

(***************************************************************************)
(* track_visit alone, for a user last seen any number of minutes ago.      *)
(***************************************************************************)
InitVisit ==
    /\ now \in 0..MaxElapsed
    /\ ticks = 0
    /\ ops = 0
    /\ configured = TRUE
    /\ tracking = {new_tracking(1, 1, CidGood, COUNTER_ID, 0)}
    /\ nextTrackingId = 2
    /\ conversions = {}
    /\ nextConversionId = 1
    /\ requests = EmptyBag
    /\ dbFaults = 0
    /\ NoMigration
    /\ runs = [pr \in Pairs |-> <<>>]
    /\ task = [t \in Tasks |-> Idle]

StepVisit(t) ==
    \/ TrackGetTracking(t)
    \/ \E resp \in Responses : TrackPageview(t, send_request(resp))
    \/ TrackUpdateLastVisit(t)
    \/ TrackIncrementVisitCount(t)
    \/ UpsertRead(t)
    \/ UpsertWrite(t)
    \/ UpsertEnd(t)
    \/ \E resp \in Responses : TrackFirstPageview(t, send_request(resp))

NextVisit ==
    \/ (~Returning /\ ops < MaxVisits /\ AllIdle
          /\ \E t \in Tasks, u \in Users, c \in ClientIds :
                 StartTrackVisit(t, u, c))
    \/ (~Returning /\ \E t \in Tasks : StepVisit(t))
    \/ (\E t \in Tasks : Return(t))

SpecVisit == InitVisit /\ [][NextVisit]_vars

(***************************************************************************)
(* _validate_client_id alone, applied to the strings of TestStrings: a     *)
(* body of up to MaxLen characters, all alike but one, between up to       *)
(* MaxPad spaces on each side.  The characters: an ASCII digit, a dot, a   *)
(* letter, a space, a tab and a digit outside ASCII.                       *)
(***************************************************************************)
Alphabet == {"1", ".", "a", " ", "\t", "U+00B2"}

Pad(n) == [k \in 1..n |-> " "]

Body(n, b, i, c) == [k \in 1..n |-> IF k = i THEN c ELSE b]

TestStrings ==
    { Pad(l) \o Body(n, b, i, c) \o Pad(r) :
        l \in 0..MaxPad, r \in 0..MaxPad, n \in 0..MaxLen,
        b \in Alphabet, c \in Alphabet, i \in 1..MaxLen }

InitValidate ==
    /\ now = 0
    /\ ticks = 0
    /\ ops = 0
    /\ configured = TRUE
    /\ tracking = {}
    /\ nextTrackingId = 1
    /\ conversions = {}
    /\ nextConversionId = 1
    /\ requests = EmptyBag
    /\ dbFaults = 0
    /\ NoMigration
    /\ runs = [pr \in Pairs |-> <<>>]
    /\ \E s \in TestStrings :
          task = [t \in Tasks |->
                    IF t = "t1"
                    THEN [Idle EXCEPT !.op = "validate", !.pc = "validate",
                                      !.client_id = s]
                    ELSE Idle]

\* self._validate_client_id(client_id), lines 38-50
Validate(t) ==
    /\ task[t].pc = "validate"
    /\ task' = [task EXCEPT ![t].pc = "done",
                            ![t].result = IF validate_client_id(task[t].client_id)
                                          THEN "true" ELSE "false"]
    /\ UNCHANGED <<now, ticks, ops, configured, migration, store, requests, dbFaults, runs>>

NextValidate == \E t \in Tasks : Validate(t)

SpecValidate == InitValidate /\ [][NextValidate]_vars

(***************************************************************************)
(* The resend batch called again and again, one batch at a time, over a    *)
(* table of tracking rows that no other request changes; the collector     *)
(* accepts every request and the database every statement but MaxFaults    *)
(* inserts of a conversion row.  `ops` counts the batch in progress.       *)
(***************************************************************************)
\* The tracking tables the batches start over: users tracked in either order,
\* by create_yandex_tracking calls at time 0; the user with payments under a
\* valid client id.
BatchTracking ==
    { {new_tracking(1, 1, CidGood, COUNTER_ID, 0)} }
    \cup { {new_tracking(1, 1, CidGood, COUNTER_ID, 0),
            new_tracking(2, 2, c, COUNTER_ID, 0)} : c \in ClientIds }
    \cup { {new_tracking(1, 2, c, COUNTER_ID, 0),
            new_tracking(2, 1, CidGood, COUNTER_ID, 0)} : c \in ClientIds }

InitBatch ==
    /\ now \in {0, timedelta(0, 13, 0)}
    /\ ticks = 0
    /\ ops = 0
    /\ configured = TRUE
    /\ tracking \in BatchTracking
    /\ nextTrackingId = Cardinality(tracking) + 1
    /\ conversions = {}
    /\ nextConversionId = 1
    /\ requests = EmptyBag
    /\ dbFaults = 0
    /\ NoMigration
    /\ runs = [pr \in Pairs |-> <<>>]
    /\ task = [t \in Tasks |-> Idle]

StepBatch(t) ==
    \/ ResendList(t, FALSE)
    \/ ResendPayments(t, FALSE)
    \/ ChainGetTracking(t, FALSE)
    \/ ChainCheckSent(t)
    \/ ChainPageview(t, TRUE)
    \/ ChainUpdateLastVisit(t)
    \/ ChainIncrementVisitCount(t)
    \/ ChainEcommerce(t, TRUE)
    \/ ChainGoal(t, TRUE)
    \/ \E fault \in BOOLEAN :
          (fault => dbFaults < MaxFaults) /\ ChainSave(t, fault)
    \/ ChainSaveRefresh(t)
    \/ ResendSleep(t)
    \/ ResendCommit(t, FALSE)

\* The batch returns its tally to its caller, who may call it again.
ReturnBatch(t) ==
    /\ task[t].pc = "done"
    /\ task' = [task EXCEPT ![t] = Idle]
    /\ ops' = 0
    /\ UNCHANGED <<now, ticks, configured, migration, store, requests, dbFaults, runs>>

NextBatch ==
    \/ (ops = 0 /\ \E t \in Tasks, l \in Limits : StartResend(t, l))
    \/ (\E t \in Tasks : StepBatch(t))
    \/ (\E t \in Tasks : ReturnBatch(t))

\* The caller goes on calling, and every await of a batch comes to an end.
SpecBatch == InitBatch /\ [][NextBatch]_vars /\ WF_vars(NextBatch)

(***************************************************************************)
(* The conversion chain for one payment of a user whose session has        *)
(* closed, called again after a failure: directly or, the user's other     *)
(* payment being converted, by the resend batch.  Calls are served one at  *)
(* a time and the clock advances between them.                             *)
(***************************************************************************)
RetryPayment == CHOOSE p \in Payments : p.payment_id = 1
RetryPair == <<RetryPayment.user_id, str(RetryPayment.payment_id)>>
RetryStarts == {timedelta(0, 12, 30), timedelta(0, 13, 0)}

InitRetry ==
    /\ now \in RetryStarts
    /\ ticks = 0
    /\ ops = 0
    /\ configured = TRUE
    /\ tracking = {new_tracking(1, RetryPayment.user_id, CidGood, COUNTER_ID, 0)}
    /\ nextTrackingId = 2
    /\ conversions = save_conversion_record({}, 1, RetryPayment.user_id,
                                            "2", 250, 0, FALSE)
    /\ nextConversionId = 2
    /\ requests = EmptyBag
    /\ dbFaults = 0
    /\ NoMigration
    /\ runs = [pr \in Pairs |-> <<>>]
    /\ task = [t \in Tasks |-> Idle]

StepRetry(t) ==
    \/ ChainGetTracking(t, FALSE)
    \/ ChainCheckSent(t)
    \/ \E resp \in Responses : ChainPageview(t, send_request(resp))
    \/ ChainUpdateLastVisit(t)
    \/ ChainIncrementVisitCount(t)
    \/ \E resp \in Responses : ChainEcommerce(t, send_request(resp))
    \/ \E resp \in Responses : ChainGoal(t, send_request(resp))
    \/ ChainSave(t, FALSE)
    \/ ChainSaveRefresh(t)
    \/ ResendList(t, FALSE)
    \/ ResendPayments(t, FALSE)
    \/ ResendSleep(t)
    \/ ResendCommit(t, FALSE)

NextRetry ==
    \/ (AllIdle /\ Tick)
    \/ (ops < MaxOps /\ AllIdle /\ \E t \in Tasks : StartChain(t, RetryPayment))
    \/ (ops < MaxOps /\ AllIdle /\ \E t \in Tasks, l \in Limits : StartResend(t, l))
    \/ (~Returning /\ \E t \in Tasks : StepRetry(t))
    \/ (\E t \in Tasks : Return(t))

SpecRetry == InitRetry /\ [][NextRetry]_vars

(***************************************************************************)
(* The resend batch over a table in which two users have unconverted       *)
(* succeeded payments, or one has: the batch is called, and called again   *)
(* when it has returned; the collector may refuse a request and a          *)
(* statement may raise.                                                    *)
(***************************************************************************)
\* The tracking tables the batches start over: rows written by
\* create_yandex_tracking calls at time 0.
TallyTracking ==
    { {new_tracking(1, 1, CidGood, COUNTER_ID, 0)} }
    \cup { {new_tracking(1, 1, CidGood, COUNTER_ID, 0),
            new_tracking(2, 3, c, COUNTER_ID, 0)} : c \in ClientIds }

InitTally ==
    /\ now \in {0, timedelta(0, 13, 0)}
    /\ ticks = 0
    /\ ops = 0
    /\ configured = TRUE
    /\ tracking \in TallyTracking
    /\ nextTrackingId = Cardinality(tracking) + 1
    /\ conversions = {}
    /\ nextConversionId = 1
    /\ requests = EmptyBag
    /\ dbFaults = 0
    /\ NoMigration
    /\ runs = [pr \in Pairs |-> <<>>]
    /\ task = [t \in Tasks |-> Idle]

StepTally(t) ==
    \/ \E fault \in BOOLEAN : ResendList(t, fault)
    \/ \E fault \in BOOLEAN : ResendPayments(t, fault)
    \/ \E fault \in BOOLEAN : ChainGetTracking(t, fault)
    \/ ChainCheckSent(t)
    \/ \E resp \in Responses : ChainPageview(t, send_request(resp))
    \/ ChainUpdateLastVisit(t)
    \/ ChainIncrementVisitCount(t)
    \/ \E resp \in Responses : ChainEcommerce(t, send_request(resp))
    \/ \E resp \in Responses : ChainGoal(t, send_request(resp))
    \/ \E fault \in BOOLEAN : ChainSave(t, fault)
    \/ ChainSaveRefresh(t)
    \/ ResendSleep(t)
    \/ \E fault \in BOOLEAN : ResendCommit(t, fault)

NextTally ==
    \/ (ops < MaxOps /\ AllIdle /\ \E t \in Tasks, l \in Limits : StartResend(t, l))
    \/ (~Returning /\ \E t \in Tasks : StepTally(t))
    \/ (\E t \in Tasks : Return(t))

SpecTally == InitTally /\ [][NextTally]_vars

(***************************************************************************)
(* Chain calls for one payment and cleanups, served at the same time: a    *)
(* cleanup may run between the awaits of a chain call, and the chain is    *)
(* called again for the payment when the earlier call has returned.        *)
(***************************************************************************)
InitAgain ==
    /\ now \in RetryStarts
    /\ ticks = 0
    /\ ops = 0
    /\ configured = TRUE
    /\ tracking = {new_tracking(1, RetryPayment.user_id, CidGood, COUNTER_ID, 0)}
    /\ nextTrackingId = 2
    /\ conversions = {}
    /\ nextConversionId = 1
    /\ requests = EmptyBag
    /\ dbFaults = 0
    /\ NoMigration
    /\ runs = [pr \in Pairs |-> <<>>]
    /\ task = [t \in Tasks |-> Idle]

\* No two calls of the chain at the same time.
NoChain == \A t \in Tasks : task[t].op # "chain"

StepAgain(t) ==
    \/ ChainGetTracking(t, FALSE)
    \/ ChainCheckSent(t)
    \/ \E resp \in Responses : ChainPageview(t, send_request(resp))
    \/ ChainUpdateLastVisit(t)
    \/ ChainIncrementVisitCount(t)
    \/ \E resp \in Responses : ChainEcommerce(t, send_request(resp))
    \/ \E resp \in Responses : ChainGoal(t, send_request(resp))
    \/ ChainSave(t, FALSE)
    \/ ChainSaveRefresh(t)
    \/ CleanupDelete(t)

NextAgain ==
    \/ (~Returning /\ ops < MaxOpsSeq /\ NoChain
           /\ \E t \in Tasks : StartChain(t, RetryPayment))
    \/ (~Returning /\ ops < MaxOpsSeq
           /\ \E t \in Tasks, d \in CleanupDays : Cleanup(t, d))
    \/ (~Returning /\ \E t \in Tasks : StepAgain(t))
    \/ (\E t \in Tasks : Return(t))

SpecAgain == InitAgain /\ [][NextAgain]_vars

(***************************************************************************)
(* run_database_migrations (db/migrator.py, lines 153-192), called again   *)
(* and again on a connection that sees what the earlier calls left.  The   *)
(* function is synchronous; its steps are the statements it executes.  A   *)
(* statement may raise: `fault`.                                           *)
(***************************************************************************)
Ids(seq) == {seq[k] : k \in 1..Len(seq)}

\* The columns _migration_0001_add_channel_subscription_fields adds to users.
UsersColumns ==
    {"users.channel_subscription_verified",
     "users.channel_subscription_checked_at",
     "users.channel_subscription_verified_for"}

\* lines 28-50: the columns that are missing are added; the rows of
\* yandex_tracking are not touched.
migration_0001_add_channel_subscription_fields(S, T, n) ==
    [schema |-> S \cup UsersColumns, tracking |-> T]

\* lines 53-130, run at time n over the schema S and the rows T of
\* yandex_tracking: nothing without the table; else the missing columns, whose
\* DEFAULT (NOW(), 1) every row gets; the UPDATEs that give a NULL
\* last_visit_time COALESCE(first_visit_time, NOW()) and a NULL visit_count 1;
\* the missing indexes; and the table yandex_conversions with its indexes if
\* the table is missing.
migration_0002_yandex_tracking(S, T, n) ==
    IF "yandex_tracking" \notin S
    THEN [schema |-> S, tracking |-> T]
    ELSE [schema |->
             S \cup {"yandex_tracking.last_visit_time",
                     "yandex_tracking.visit_count",
                     "idx_yandex_tracking_visit_count",
                     "idx_yandex_tracking_last_visit"}
               \cup (IF "yandex_conversions" \notin S
                     THEN {"yandex_conversions",
                           "idx_yandex_conversions_user_id",
                           "idx_yandex_conversions_payment_id"}
                     ELSE {}),
          tracking |->
             {[r EXCEPT
                 !.last_visit_time =
                    IF "yandex_tracking.last_visit_time" \notin S THEN n
                    ELSE IF r.last_visit_time # NoTime THEN r.last_visit_time
                    ELSE IF r.first_visit_time # NoTime THEN r.first_visit_time
                    ELSE n,
                 !.visit_count =
                    IF "yandex_tracking.visit_count" \notin S THEN 1
                    ELSE IF r.visit_count # NoCount THEN r.visit_count
                    ELSE 1]
                : r \in T}]

\* migration.upgrade(connection)
upgrade(id, S, T, n) ==
    CASE id = MIGRATIONS[1] ->
           migration_0001_add_channel_subscription_fields(S, T, n)
      [] id = MIGRATIONS[2] -> migration_0002_yandex_tracking(S, T, n)

\* Mutant: every migration of the list is taken for pending.
pending_unchecked(id, applied_revisions) == TRUE

\* lines 167-168: `if migration.id in applied_revisions: continue`
pending(id, applied_revisions) == id \notin applied_revisions

\* Mutant: the upgrade logs the exception of its statement and returns.
upgrade_swallows(id, fault) == FALSE

\* A statement of the upgrade raises: the upgrade raises (0001 has no handler,
\* 0002 logs and raises again, lines 132-135).
upgrade_raises(id, fault) == fault

\* A row of yandex_tracking as an earlier version left it: NoTime and NoCount
\* where the row has no value.
OldRow(id, user_id, first, last, visits) ==
    [new_tracking(id, user_id, CidGood, COUNTER_ID, 0)
        EXCEPT !.first_visit_time = first, !.last_visit_time = last,
               !.visit_count = visits]

\* The databases the migrator starts over: a fresh one; one with the table
\* yandex_tracking of an earlier version, empty or with a row; one with the
\* tables as the models create them, empty or with rows that lack a
\* last_visit_time, a first_visit_time too, or a visit_count.
InitialDatabases ==
    { [schema |-> {}, tracking |-> {}],
      [schema |-> {"yandex_tracking"}, tracking |-> {}],
      [schema |-> {"yandex_tracking"},
       tracking |-> {OldRow(1, 1, 5, NoTime, NoCount)}] }
    \cup
    { [schema |-> {"yandex_tracking", "yandex_tracking.last_visit_time",
                   "yandex_tracking.visit_count", "yandex_conversions"},
       tracking |-> T] :
        T \in { {},
                {OldRow(1, 1, 5, NoTime, 3)},
                {OldRow(1, 1, 5, 7, NoCount), OldRow(2, 2, NoTime, NoTime, 2)} } }

InitMigrate ==
    /\ now = 10
    /\ ticks = 0
    /\ ops = 0
    /\ configured = TRUE
    /\ nextTrackingId = 3
    /\ conversions = {}
    /\ nextConversionId = 1
    /\ requests = EmptyBag
    /\ dbFaults = 0
    /\ runs = [pr \in Pairs |-> <<>>]
    /\ task = [t \in Tasks |-> Idle]
    /\ executed = [id \in Ids(MIGRATIONS) |-> 0]
    /\ migrate = IdleRun
    /\ \E D \in InitialDatabases :
          /\ tracking = D.tracking
          /\ \/ schema_migrations = <<>> /\ schema = D.schema
             \/ /\ schema_migrations = <<MIGRATIONS[1]>>
                /\ schema = {"schema_migrations"} \cup UsersColumns
                               \cup D.schema

\* _ensure_migrations_table, then the SELECT of the applied ids (lines 157-164)
MigrateStart ==
    /\ migrate.pc = "idle"
    /\ migrate.n < MaxRuns
    /\ schema' = schema \cup {"schema_migrations"}
    /\ migrate' = [migrate EXCEPT !.pc = "loop", !.n = @ + 1, !.i = 1,
                                  !.applied_revisions = Ids(schema_migrations)]
    /\ UNCHANGED <<now, ticks, ops, configured, store, requests, dbFaults, runs,
                   task, schema_migrations, executed>>

\* lines 166-168: a migration that is applied is passed over
MigrateSkip ==
    /\ migrate.pc = "loop"
    /\ migrate.i <= Len(MIGRATIONS)
    /\ ~pending(MIGRATIONS[migrate.i], migrate.applied_revisions)
    /\ migrate' = [migrate EXCEPT !.i = @ + 1]
    /\ UNCHANGED <<now, ticks, ops, configured, store, requests, dbFaults, runs,
                   task, schema_migrations, schema, executed>>

\* lines 174-176: connection.begin_nested(), then migration.upgrade.  An
\* upgrade that raises leaves the block: the savepoint is rolled back and the
\* handler of lines 183-190 raises again.
MigrateUpgrade(fault) ==
    /\ migrate.pc = "loop"
    /\ migrate.i <= Len(MIGRATIONS)
    /\ pending(MIGRATIONS[migrate.i], migrate.applied_revisions)
    /\ LET id == MIGRATIONS[migrate.i]
           up == upgrade(id, schema, tracking, now)
           fr == [migrate EXCEPT
                     !.savepoint = [schema |-> schema, tracking |-> tracking],
                     !.faulted = IF fault THEN @ \cup {id} ELSE @,
                     !.faults = IF fault THEN @ + 1 ELSE @]
       IN  IF upgrade_raises(id, fault)
           THEN /\ migrate' = [fr EXCEPT !.pc = "raised", !.raised = id]
                /\ UNCHANGED <<schema, tracking, executed>>
           ELSE /\ schema' = IF fault THEN schema ELSE up.schema
                /\ tracking' = IF fault THEN tracking ELSE up.tracking
                /\ executed' = [executed EXCEPT ![id] = @ + 1]
                /\ migrate' = [fr EXCEPT !.pc = "record"]
    /\ UNCHANGED <<now, ticks, ops, configured, nextTrackingId, conversions,
                   nextConversionId, requests, dbFaults, runs, task,
                   schema_migrations>>

\* lines 177-182: INSERT INTO schema_migrations, then the savepoint is
\* released; the id is the table's primary key (line 20).  An INSERT that
\* raises rolls the savepoint back, the upgrade with it.
MigrateRecord(fault) ==
    /\ migrate.pc = "record"
    /\ LET id == MIGRATIONS[migrate.i] IN
       IF fault \/ id \in Ids(schema_migrations)
       THEN /\ schema' = migrate.savepoint.schema
            /\ tracking' = migrate.savepoint.tracking
            /\ migrate' = [migrate EXCEPT !.pc = "raised", !.raised = id,
                                          !.faults = @ + 1]
            /\ UNCHANGED schema_migrations
       ELSE /\ schema_migrations' = Append(schema_migrations, id)
            /\ migrate' = [migrate EXCEPT !.pc = "loop", !.i = @ + 1,
                                          !.applied = Append(@, id)]
            /\ UNCHANGED <<schema, tracking>>
    /\ UNCHANGED <<now, ticks, ops, configured, nextTrackingId, conversions,
                   nextConversionId, requests, dbFaults, runs, task, executed>>

\* the loop is over: the function returns
MigrateFinish ==
    /\ migrate.pc = "loop"
    /\ migrate.i > Len(MIGRATIONS)
    /\ migrate' = [migrate EXCEPT !.pc = "done"]
    /\ UNCHANGED <<now, ticks, ops, configured, store, requests, dbFaults, runs,
                   task, schema_migrations, schema, executed>>

\* The caller has the result or the exception: the function's locals are gone.
MigrateReturn ==
    /\ migrate.pc \in {"done", "raised"}
    /\ migrate' = [IdleRun EXCEPT !.n = migrate.n, !.failed = migrate.raised,
                                  !.faults = migrate.faults]
    /\ UNCHANGED <<now, ticks, ops, configured, store, requests, dbFaults, runs,
                   task, schema_migrations, schema, executed>>

NextMigrate ==
    \/ (migrate.pc = "idle" /\ Tick)
    \/ MigrateStart
    \/ MigrateSkip
    \/ \E fault \in BOOLEAN : MigrateUpgrade(fault)
    \/ \E fault \in BOOLEAN : MigrateRecord(fault)
    \/ MigrateFinish
    \/ MigrateReturn

SpecMigrate == InitMigrate /\ [][NextMigrate]_vars

(***************************************************************************)
(* Vocabulary of the properties.                                           *)
(***************************************************************************)
\* Task t holds a chain call that has just returned: to its direct caller, or
\* to the resend batch, which has not gone on yet.
Completed(t) ==
    \/ task[t].op = "chain" /\ task[t].pc = "done"
    \/ task[t].op = "resend" /\ task[t].pc = "resend_sleep"

\* Task t is in a chain call, made directly or by the resend batch.
InChain(t) == task[t].op \in {"chain", "resend"}

\* How many requests of a kind were made for a transaction id.
SentCount(kind, ti) ==
    LET S == {r \in BagToSet(requests) : r.kind = kind /\ r.ti = ti}
    IN  BagCardinality([r \in S |-> requests[r]])

\* The collector has accepted every request made so far.
AllAccepted == \A r \in BagToSet(requests) : r.ok

\* The conversion rows of a pair.
RowsOf(C, user_id, payment_id) ==
    {c \in C : c.user_id = user_id /\ c.payment_id = payment_id}

\* The policy window of the Session Reconciler: 12 h + 30 min.
PolicyWindow == timedelta(0, VISIT_COMPLETION_HOURS, SESSION_TIMEOUT_MINUTES)

(***************************************************************************)
(* C1.  Two overlapping direct calls of the chain for the same             *)
(* (user_id, payment_id) never both send the ecommerce purchase.           *)
(* The code refutes it: both pass the duplicate check before either saves. *)
(***************************************************************************)
C1_EcommerceSentOncePerRace ==
    \A a, b \in Tasks :
        ( /\ a # b
          /\ task[a].op = "chain" /\ task[b].op = "chain"
          /\ task[a].user = task[b].user
          /\ task[a].payment = task[b].payment )
        => ~(task[a].ecom = "ok" /\ task[b].ecom = "ok")

(***************************************************************************)
(* C2.  Calls one after the other, service configured, collector accepting *)
(* every send, database accepting every insert: a call that finds a        *)
(* tracking row with a valid client id returns true, and the second call   *)
(* for a pair whose first call returned true returns true with exactly one *)
(* ecommerce request made for the payment and exactly one conversion row.  *)
(***************************************************************************)
C2_SecondCallIsNoOp ==
    \A t \in Tasks :
        ( /\ task[t].op = "chain" /\ task[t].pc = "done"
          /\ AllAccepted /\ dbFaults = 0
          /\ task[t].tr # NoTracking
          /\ validate_client_id(task[t].tr.yandex_client_id) )
        => /\ task[t].result = "true"
           /\ ( /\ Len(runs[<<task[t].user, task[t].payment>>]) = 2
                /\ runs[<<task[t].user, task[t].payment>>][1] = "true" )
              => /\ SentCount("ecommerce", task[t].payment) = 1
                 /\ task[t].ecom = "none"
                 /\ Cardinality(RowsOf(conversions, task[t].user,
                                       task[t].payment)) = 1

C2_Witness ==
    \E t \in Tasks :
        /\ task[t].op = "chain" /\ task[t].pc = "done"
        /\ AllAccepted /\ dbFaults = 0
        /\ runs[<<task[t].user, task[t].payment>>] = <<"true", "true">>
        /\ SentCount("ecommerce", task[t].payment) = 1
        /\ task[t].ecom = "none"

(***************************************************************************)
(* C3.  The conversion table never holds two rows for one                  *)
(* (user_id, payment_id), whatever runs concurrently.                      *)
(***************************************************************************)
C3_OneRowPerPair ==
    \A c, d \in conversions :
        (c.user_id = d.user_id /\ c.payment_id = d.payment_id) => c = d

\* Two chain calls raced and the second insert was refused by the constraint.
C3_Witness ==
    \E t \in Tasks :
        /\ task[t].saved = "dup"
        /\ Cardinality(RowsOf(conversions, task[t].user, task[t].payment)) = 1

(***************************************************************************)
(* C4.  save_conversion_record for a pair that has a row returns an        *)
(* outcome of its own, not the one of a failed insert, and leaves the one  *)
(* row; for an absent pair it inserts one row and returns it.              *)
(* The code refutes it: the existing pair is found by the failing flush    *)
(* and None is returned, as for any other failure.                         *)
(***************************************************************************)
C4_AlreadyExistsIsDistinguished ==
    \A t \in Tasks :
        /\ task[t].saved = "dup"
           => /\ task[t].ret \notin {save_returns("err"), save_returns("ok")}
              /\ Cardinality(RowsOf(conversions, task[t].user,
                                    task[t].payment)) = 1
        /\ (task[t].saved = "ok" /\ Completed(t))
           => /\ task[t].ret = "row"
              /\ Cardinality(RowsOf(conversions, task[t].user,
                                    task[t].payment)) = 1

(***************************************************************************)
(* C5.  When the chain returns true, the pair has a conversion row, also   *)
(* when the insert failed.                                                 *)
(* The code refutes it: the result of save_conversion_record is ignored.   *)
(***************************************************************************)
C5_TrueMeansRecorded ==
    \A t \in Tasks :
        (Completed(t) /\ task[t].result = "true")
        => RowsOf(conversions, task[t].user, task[t].payment) # {}

(***************************************************************************)
(* C6.  A conversion row appears only by the save of a chain call, for its *)
(* own pair, whose ecommerce request was accepted in this call and, if it  *)
(* found the session closed, whose pageview was accepted before.           *)
(***************************************************************************)
C6_RecordOnlyAfterSends ==
    [][ \A c \in conversions' \ conversions :
          \E t \in Tasks :
             /\ task[t].pc = "save"
             /\ task'[t].saved = "ok"
             /\ c.user_id = task[t].user /\ c.payment_id = task[t].payment
             /\ task[t].ecom = "ok"
             /\ CopiesIn(Request("ecommerce", task[t].tr.yandex_client_id,
                                 task[t].payment, TRUE), requests) >= 1
             /\ task[t].pv # "fail" /\ task[t].pv # "invalid"
             /\ task[t].closed
                => /\ task[t].pv = "ok"
                   /\ CopiesIn(Request("pageview",
                                 strip(task[t].tr.yandex_client_id), "", TRUE),
                               requests) >= 1 ]_vars

\* A call that reopened the session has saved its conversion.
C6_Witness ==
    \E t \in Tasks :
        /\ Completed(t) /\ task[t].saved = "ok"
        /\ task[t].closed /\ task[t].pv = "ok"
        /\ RowsOf(conversions, task[t].user, task[t].payment) # {}

(***************************************************************************)
(* C7.  A chain call whose ecommerce send failed returns false, sends no   *)
(* goal event and creates no conversion row.                               *)
(***************************************************************************)
C7_EcommerceFailureAborts ==
    \A t \in Tasks :
        task[t].ecom = "fail"
        => /\ Completed(t)
           /\ task[t].result = "false"
           /\ task[t].goal = "none"
           /\ task[t].saved = "none"
           /\ conversions = task[t].pre.conversions

C7_Witness ==
    \E t \in Tasks : Completed(t) /\ task[t].ecom = "fail"

(***************************************************************************)
(* C8.  As claimed: a chain call that returns false because the ecommerce  *)
(* send failed leaves both tables as it found them, also after it reopened *)
(* the session.  The code refutes it.                                      *)
(***************************************************************************)
C8_FailedRunLeavesStore ==
    \A t \in Tasks :
        (Completed(t) /\ task[t].ecom = "fail")
        => /\ tracking = task[t].pre.tracking
           /\ conversions = task[t].pre.conversions

\* The tracking table T1 is T0 with the row `id` visited once more, at a time
\* between `from` and now: last_visit_time set, visit_count + 1 (a NULL count
\* stays NULL under the UPDATE's visit_count + 1).
Touched(T0, T1, id, from) ==
    \E n \in from..now :
        T1 = {IF r.tracking_id = id
              THEN [r EXCEPT !.last_visit_time = n,
                             !.visit_count = IF r.visit_count = NoCount
                                             THEN NoCount
                                             ELSE r.visit_count + 1]
              ELSE r
                 : r \in T0}

(***************************************************************************)
(* C8, amended.  Such a call leaves the conversion table as it found it,   *)
(* and the tracking table too unless it reopened the session: then the     *)
(* row it read has its visit_count raised by one and its last_visit_time   *)
(* set to the time of the reopening, and no other row differs.             *)
(***************************************************************************)
C8_FailedRunKeepsVisit ==
    \A t \in Tasks :
        (Completed(t) /\ task[t].ecom = "fail")
        => /\ task[t].result = "false"
           /\ conversions = task[t].pre.conversions
           /\ IF task[t].pv = "ok"
              THEN Touched(task[t].pre.tracking, tracking,
                           task[t].tr.tracking_id,
                           last_visit_of(task[t].tr) + task[t].elapsed)
              ELSE tracking = task[t].pre.tracking

C8_Witness ==
    \E t \in Tasks :
        /\ Completed(t) /\ task[t].ecom = "fail" /\ task[t].pv = "ok"
        /\ tracking # task[t].pre.tracking

(***************************************************************************)
(* C9.  A chain call that finds the session closed and whose pageview      *)
(* fails returns false: no visit is recorded, no ecommerce and no goal     *)
(* request is made, no conversion row is created.                          *)
(***************************************************************************)
C9_PageviewFailureAborts ==
    \A t \in Tasks :
        (InChain(t) /\ task[t].pv \in {"fail", "invalid"})
        => /\ Completed(t)
           /\ task[t].closed
           /\ task[t].result = "false"
           /\ task[t].ecom = "none" /\ task[t].goal = "none"
           /\ task[t].saved = "none"
           /\ tracking = task[t].pre.tracking
           /\ conversions = task[t].pre.conversions

C9_Witness ==
    \E t \in Tasks :
        Completed(t) /\ task[t].pv = "fail" /\ task[t].closed

(***************************************************************************)
(* C10.  The chain sends the reopening pageview exactly when the time      *)
(* since the last visit exceeds 12 h + 30 min.                             *)
(* The code refutes it: the chain tests against 12 h alone.                *)
(***************************************************************************)
C10_ChainUsesPolicyWindow ==
    \A t \in Tasks :
        ( /\ InChain(t)
          /\ task[t].elapsed # NoTime
          /\ task[t].pc # "pageview"
          /\ validate_client_id(task[t].tr.yandex_client_id) )
        => (task[t].pv \in {"ok", "fail"} <=> task[t].elapsed > PolicyWindow)

(***************************************************************************)
(* C11.  track_visit, finding a tracking row, takes the visit for open     *)
(* exactly when the time since the last visit is at most 12 h + 30 min:    *)
(* open at 11 h, closed at 13 h; it sends a pageview when the visit is     *)
(* closed and none when it is open.                                        *)
(***************************************************************************)
C11_TrackVisitUsesPolicyWindow ==
    \A t \in Tasks :
        (task[t].op = "track_visit" /\ task[t].elapsed # NoTime)
        => /\ task[t].closed <=> task[t].elapsed > PolicyWindow
           /\ task[t].elapsed = timedelta(0, 11, 0) => ~task[t].closed
           /\ task[t].elapsed = timedelta(0, 13, 0) => task[t].closed
           /\ ~task[t].closed
              => /\ task[t].pv = "none"
                 /\ task[t].pc = "done" /\ task[t].result = "true"
           /\ (task[t].closed /\ task[t].pc # "tv_pageview")
              => task[t].pv \in {"ok", "fail"}

\* A visit one minute past the window was reopened.
C11_Witness ==
    \E t \in Tasks :
        /\ task[t].op = "track_visit" /\ task[t].pc = "done"
        /\ task[t].elapsed = PolicyWindow + 1
        /\ task[t].pv = "ok" /\ task[t].result = "true"

(***************************************************************************)
(* C12.  A chain call, alone, changes the tracking table exactly when it   *)
(* found the session closed and its pageview was accepted: then the row it *)
(* read has its visit_count raised by one and its last_visit_time set to   *)
(* the time of the call; in every other call the table is left as found.   *)
(***************************************************************************)
C12_TouchIffReopened ==
    \A t \in Tasks :
        Completed(t)
        => IF task[t].closed /\ task[t].pv = "ok"
           THEN /\ Touched(task[t].pre.tracking, tracking,
                           task[t].tr.tracking_id,
                           last_visit_of(task[t].tr) + task[t].elapsed)
                /\ tracking # task[t].pre.tracking
           ELSE tracking = task[t].pre.tracking

C12_Witness ==
    \E t \in Tasks :
        /\ Completed(t) /\ task[t].result = "true"
        /\ task[t].closed /\ task[t].pv = "ok"
        /\ \E r \in tracking :
              /\ r.tracking_id = task[t].tr.tracking_id
              /\ r.visit_count = task[t].tr.visit_count + 1
              /\ r.last_visit_time > task[t].tr.last_visit_time

(***************************************************************************)
(* C13.  A chain call whose ecommerce send was accepted and whose goal     *)
(* send failed goes on: it saves the conversion and returns true; the pair *)
(* has its row unless the database refused the insert itself.              *)
(***************************************************************************)
C13_GoalFailureDoesNotAbort ==
    \A t \in Tasks :
        task[t].goal \in {"fail", "invalid"}
        => /\ task[t].ecom = "ok"
           /\ \/ task[t].pc \in {"save", "save_refresh"}
              \/ /\ Completed(t)
                 /\ task[t].result = "true"
                 /\ task[t].saved # "none"
                 /\ task[t].saved # "err"
                    => RowsOf(conversions, task[t].user, task[t].payment) # {}

C13_Witness ==
    \E t \in Tasks :
        /\ Completed(t) /\ task[t].goal = "fail"
        /\ task[t].result = "true" /\ task[t].saved = "ok"
        /\ RowsOf(conversions, task[t].user, task[t].payment) # {}

(***************************************************************************)
(* C14.  A chain call for a user without a tracking row returns false,     *)
(* makes no request and leaves both tables as it found them.               *)
(***************************************************************************)
C14_NoTrackingNoChain ==
    \A t \in Tasks :
        ( /\ Completed(t)
          /\ get_tracking_by_user_id(task[t].pre.tracking, task[t].user)
                = {NoTracking} )
        => /\ task[t].result = "false"
           /\ task[t].pv = "none" /\ task[t].ecom = "none"
           /\ task[t].goal = "none" /\ task[t].saved = "none"
           /\ tracking = task[t].pre.tracking
           /\ conversions = task[t].pre.conversions

C14_Witness ==
    \E t \in Tasks :
        /\ Completed(t) /\ configured
        /\ task[t].op = "chain"
        /\ \A r \in tracking : r.user_id # task[t].user
        /\ task[t].result = "false"

(***************************************************************************)
(* C15.  Not configured, every operation of the service returns at its     *)
(* first statement: the chain, track_visit and the sends return false and  *)
(* the resend batch its all-zero tally, no request is ever made and no     *)
(* statement is run on the store.                                          *)
(***************************************************************************)
ServiceOps == {"chain", "resend", "track_visit"} \cup SendOps

C15_NotConfiguredShortCircuits ==
    ~configured
    => /\ requests = EmptyBag
       /\ \A t \in Tasks :
             task[t].op \in ServiceOps
             => /\ task[t].pc = "done"
                /\ task[t].tr = NoTracking
                /\ IF task[t].op = "resend"
                   THEN task[t].tally =
                            [processed |-> 0, success |-> 0, failed |-> 0]
                   ELSE task[t].result = "false"
                /\ tracking = task[t].pre.tracking
                /\ conversions = task[t].pre.conversions

\* A send with a valid client id was refused for the configuration alone,
\* over a store that holds a tracking row.
C15_Witness ==
    /\ ~configured
    /\ tracking # {}
    /\ \E t \in Tasks :
          /\ task[t].op \in SendOps /\ task[t].pc = "done"
          /\ validate_client_id(task[t].client_id)
          /\ task[t].result = "false"

(***************************************************************************)
(* C16.  A chain call for a pair that has its conversion row returns true, *)
(* makes no request and leaves both tables as it found them, however old   *)
(* the session is and whatever state the call starts in.                   *)
(* The code refutes it: the tracking row is looked up before the duplicate *)
(* check, and a pair whose tracking row a cleanup deleted while the        *)
(* conversion was on its way gets false.                                   *)
(***************************************************************************)
C16_DuplicateIsNoOp ==
    \A t \in Tasks :
        ( /\ Completed(t)
          /\ RowsOf(task[t].pre.conversions, task[t].user, task[t].payment)
                # {} )
        => /\ task[t].result = "true"
           /\ task[t].pv = "none" /\ task[t].ecom = "none"
           /\ task[t].goal = "none" /\ task[t].saved = "none"
           /\ tracking = task[t].pre.tracking
           /\ conversions = task[t].pre.conversions

(***************************************************************************)
(* C17.  In every chain call the steps come in this order: duplicate       *)
(* check, session test, pageview if the session is closed, ecommerce send, *)
(* goal send, save.  No request before the duplicate check; no ecommerce   *)
(* send before the pageview a closed session needs was accepted; the goal  *)
(* send only after an accepted ecommerce send; the save only after the     *)
(* goal send was tried.                                                    *)
(***************************************************************************)
C17_StepsInOrder ==
    \A t \in Tasks :
        InChain(t)
        => /\ task[t].pc \in {"pageview", "update_last_visit",
                               "increment_visit_count", "ecommerce", "goal",
                               "save", "save_refresh"}
              => task[t].elapsed # NoTime
           /\ task[t].pv # "none"
              => task[t].elapsed # NoTime /\ task[t].closed
           /\ task[t].ecom # "none"
              => /\ task[t].elapsed # NoTime
                 /\ task[t].closed => task[t].pv = "ok"
           /\ task[t].goal # "none" => task[t].ecom = "ok"
           /\ task[t].saved # "none"
              => task[t].goal # "none" /\ task[t].ecom = "ok"

\* A call went through every step.
C17_Witness ==
    \E t \in Tasks :
        /\ Completed(t) /\ task[t].elapsed # NoTime
        /\ task[t].pv = "ok" /\ task[t].ecom = "ok"
        /\ task[t].goal = "ok" /\ task[t].saved = "ok"

(***************************************************************************)
(* C18.  No request is ever made with a client id that                     *)
(* _validate_client_id rejects: each send operation called with one        *)
(* returns false at once, and so a chain call over a tracking row with     *)
(* such an id makes no request.                                            *)
(* The code refutes it: send_ecommerce_purchase does not validate.         *)
(***************************************************************************)
C18_InvalidIdNeverSent ==
    /\ \A r \in BagToSet(requests) : validate_client_id(r.cid)
    /\ \A t \in Tasks :
          (task[t].op \in SendOps /\ ~validate_client_id(task[t].client_id))
          => task[t].pc = "done" /\ task[t].result = "false"

(***************************************************************************)
(* C19.  Vocabulary: the string without its leading and trailing           *)
(* whitespace, and a valid client id: 10 to 30 characters, digits and      *)
(* dots, with a digit among them.                                          *)
(***************************************************************************)
Trimmed(s) ==
    LET inner == {k \in 1..Len(s) : s[k] \notin Whitespace}
    IN  IF inner = {} THEN <<>>
        ELSE SubSeq(s, CHOOSE k \in inner : \A j \in inner : k <= j,
                       CHOOSE k \in inner : \A j \in inner : j <= k)

DigitsWithDots(s) ==
    /\ Trimmed(s) # <<>>
    /\ Len(Trimmed(s)) >= 10 /\ Len(Trimmed(s)) <= 30
    /\ \A k \in 1..Len(Trimmed(s)) : Trimmed(s)[k] \in Digits \cup {"."}
    /\ \E k \in 1..Len(Trimmed(s)) : Trimmed(s)[k] \in Digits

(***************************************************************************)
(* C19, as claimed.  _validate_client_id returns true exactly for the      *)
(* strings that, trimmed, are 10 to 30 characters long, each a digit or a  *)
(* dot.  The code refutes it for the strings of dots alone.                *)
(***************************************************************************)
C19_ValidIffDigitsOrDots ==
    \A t \in Tasks :
        (task[t].op = "validate" /\ task[t].pc = "done")
        => LET s == Trimmed(task[t].client_id)
           IN  task[t].result = "true"
               <=> /\ Len(s) >= 10 /\ Len(s) <= 30
                   /\ \A k \in 1..Len(s) : s[k] \in Digits \cup {"."}

(***************************************************************************)
(* C19, amended.  _validate_client_id returns true exactly for the strings *)
(* that, trimmed, are 10 to 30 characters long, each a digit or a dot and  *)
(* at least one a digit; so false for a string with a letter and for the   *)
(* trimmed lengths 9 and 31.                                               *)
(***************************************************************************)
C19_ValidIffDigitsWithDots ==
    \A t \in Tasks :
        (task[t].op = "validate" /\ task[t].pc = "done")
        => /\ task[t].result = "true"
              <=> DigitsWithDots(task[t].client_id)
           /\ (\E k \in 1..Len(task[t].client_id) : task[t].client_id[k] = "a")
              => task[t].result = "false"
           /\ Len(Trimmed(task[t].client_id)) \in {9, 31}
              => task[t].result = "false"

\* A padded id of 30 characters with a dot was accepted.
C19_Witness ==
    \E t \in Tasks :
        /\ task[t].op = "validate" /\ task[t].pc = "done"
        /\ task[t].result = "true"
        /\ Len(Trimmed(task[t].client_id)) = 30
        /\ Len(task[t].client_id) = 32
        /\ \E k \in 1..Len(task[t].client_id) : task[t].client_id[k] = "."

(***************************************************************************)
(* C20.  A send makes one request and returns true exactly when the        *)
(* response has status 200; any other status, a timeout or another error   *)
(* gives false, and the send always returns a value.                       *)
(***************************************************************************)
C20_TrueIffStatus200 ==
    [][ /\ BagCardinality(requests') \in
             {BagCardinality(requests), BagCardinality(requests) + 1}
        /\ \A t \in Tasks :
              (task[t].pc = "request" /\ task'[t].pc # "request")
              => /\ BagCardinality(requests') = BagCardinality(requests) + 1
                 /\ task'[t].pc = "done"
                 /\ task'[t].resp \in Responses
                 /\ task'[t].result \in {"true", "false"}
                 /\ task'[t].result = "true"
                    <=> ( /\ task'[t].resp.raised = ""
                          /\ task'[t].resp.status = 200 )
                 /\ \E r \in BagToSet(requests') :
                       /\ CopiesIn(r, requests') = CopiesIn(r, requests) + 1
                       /\ r.ok <=> task'[t].result = "true" ]_vars

\* A send whose request timed out has returned false.
C20_Witness ==
    \E t \in Tasks :
        /\ task[t].op \in SendOps /\ task[t].pc = "done"
        /\ task[t].resp.raised = "TimeoutError"
        /\ task[t].result = "false"
        /\ BagCardinality(requests) = 1

(***************************************************************************)
(* C21.  create_yandex_tracking for a user whose row already holds the     *)
(* client id given sets the row's last_visit_time to now and raises its    *)
(* visit_count by one; so two calls in a row with one client id for a new  *)
(* user leave visit_count = 2 and first_visit_time <= last_visit_time.     *)
(* The code refutes it: for an identical client id the row is left alone.  *)
(***************************************************************************)
C21_IdenticalUpsertCounts ==
    \A t \in Tasks :
        ( /\ task[t].op = "upsert" /\ task[t].pc = "done"
          /\ task[t].tr # NoTracking
          /\ task[t].tr.yandex_client_id = task[t].client_id )
        => \E r \in tracking :
              /\ r.tracking_id = task[t].tr.tracking_id
              /\ r.visit_count = task[t].tr.visit_count + 1
              /\ r.last_visit_time = now
              /\ r.first_visit_time <= r.last_visit_time

(***************************************************************************)
(* C22.  create_yandex_tracking, alone: for a user without a row it        *)
(* inserts one row with visit_count = 1 and first_visit_time =             *)
(* last_visit_time = now, the time the row was built; for a user whose row *)
(* holds another client id it replaces client id and counter id, sets      *)
(* last_visit_time to the time the UPDATE was built and raises visit_count *)
(* by one,                                                                 *)
(* the row keeping its tracking_id and its first_visit_time.  No other row *)
(* is added or changed, and the row is returned.                           *)
(***************************************************************************)
C22_UpsertInsertsOrReplaces ==
    \A t \in Tasks :
        (task[t].op = "upsert" /\ task[t].pc = "done")
        => LET own == {r \in task[t].pre.tracking : r.user_id = task[t].user}
           IN  /\ own = {}
                  => \E r \in tracking \ task[t].pre.tracking :
                        /\ tracking = task[t].pre.tracking \cup {r}
                        /\ r.user_id = task[t].user
                        /\ r.yandex_client_id = task[t].client_id
                        /\ r.counter_id = task[t].counter
                        /\ r.visit_count = 1
                        /\ r.first_visit_time = task[t].at
                        /\ r.last_visit_time = task[t].at
                        /\ \A q \in task[t].pre.tracking :
                              q.tracking_id # r.tracking_id
               /\ \A old \in own :
                     old.yandex_client_id # task[t].client_id
                     => tracking = (task[t].pre.tracking \ {old}) \cup
                           {[tracking_id |-> old.tracking_id,
                             user_id |-> old.user_id,
                             yandex_client_id |-> task[t].client_id,
                             counter_id |-> task[t].counter,
                             first_visit_time |-> old.first_visit_time,
                             last_visit_time |-> task[t].at,
                             visit_count |-> old.visit_count + 1,
                             created_at |-> old.created_at]}
               /\ task[t].result = "tracking"

\* A row visited twice got another client id and another counter id, later.
C22_Witness ==
    \E t \in Tasks :
        /\ task[t].op = "upsert" /\ task[t].pc = "done"
        /\ task[t].tr # NoTracking
        /\ task[t].tr.yandex_client_id # task[t].client_id
        /\ task[t].tr.counter_id # task[t].counter
        /\ task[t].tr.visit_count = 2
        /\ now > task[t].tr.last_visit_time
        /\ \E r \in tracking :
              /\ r.tracking_id = task[t].tr.tracking_id
              /\ r.visit_count = 3
              /\ r.counter_id = task[t].counter

(***************************************************************************)
(* C23.  The visit_count of every tracking row is at least 1 and never     *)
(* goes down from one state to the next, whatever runs concurrently on the *)
(* user's row.                                                             *)
(* The code refutes it: create_yandex_tracking writes the count it read    *)
(* plus one over the increments made since.                                *)
(***************************************************************************)
C23_VisitCountMonotonic ==
    [][ /\ \A r \in tracking : r.visit_count >= 1
        /\ \A r \in tracking : \A q \in tracking' :
              q.tracking_id = r.tracking_id
              => q.visit_count >= r.visit_count ]_vars

\* Task t is a create_yandex_tracking call that has returned after its UPDATE.
Updated(t) ==
    /\ task[t].op = "upsert" /\ task[t].pc = "done"
    /\ task[t].tr # NoTracking
    /\ task[t].tr.yandex_client_id # task[t].client_id
    /\ task[t].result = "tracking"

(***************************************************************************)
(* C24.  Two create_yandex_tracking calls for a user with a row, each with *)
(* a client id the row did not hold, and nothing else running: the row is  *)
(* still there, it holds the client id of one of the two, and its          *)
(* visit_count is one or two above the initial one; it is one above, an    *)
(* increment lost, exactly when both calls read the row before either      *)
(* wrote it.                                                               *)
(***************************************************************************)
C24_LostIncrementLastWriterWins ==
    \A a, b \in Tasks :
        ( /\ a # b /\ Updated(a) /\ Updated(b)
          /\ task[a].tr.visit_count <= task[b].tr.visit_count
          /\ \A o \in Tasks \ {a, b} : ~Running(o) )
        => \E r \in tracking :
              /\ r.tracking_id = task[a].tr.tracking_id
              /\ r.tracking_id = task[b].tr.tracking_id
              /\ \A q \in tracking : q.user_id = r.user_id => q = r
              /\ r.yandex_client_id \in {task[a].client_id, task[b].client_id}
              /\ r.visit_count \in {task[a].tr.visit_count + 1,
                                     task[a].tr.visit_count + 2}
              /\ r.visit_count = task[a].tr.visit_count + 1
                 <=> task[a].tr.visit_count = task[b].tr.visit_count

\* Two calls with different client ids have both written; one increment is lost.
C24_Witness ==
    \E a, b \in Tasks :
        /\ a # b /\ Updated(a) /\ Updated(b)
        /\ \A o \in Tasks \ {a, b} : ~Running(o)
        /\ task[a].client_id # task[b].client_id
        /\ task[a].tr = task[b].tr
        /\ \E r \in tracking :
              /\ r.tracking_id = task[a].tr.tracking_id
              /\ r.visit_count = task[a].tr.visit_count + 1
              /\ r.yandex_client_id = task[b].client_id

(***************************************************************************)
(* C25.  cleanup_old_tracking(days) removes exactly the tracking rows      *)
(* whose last_visit_time lies before now - days, now being the time of the *)
(* call, and whose user has no conversion row; every other row stays as it *)
(* was, also an equally old one whose user has a conversion; it returns    *)
(* the number of rows removed and leaves the conversion table alone.       *)
(***************************************************************************)
C25_CleanupRemovesOldUnconverted ==
    \A t \in Tasks :
        (task[t].op = "cleanup" /\ task[t].pc = "done")
        => LET T0 == task[t].pre.tracking
               C0 == task[t].pre.conversions
               cutoff == task[t].at - task[t].days * 24 * 60
           IN  /\ tracking \subseteq T0
               /\ \A r \in T0 :
                     r \notin tracking
                     <=> /\ r.last_visit_time < cutoff
                         /\ \A c \in C0 : c.user_id # r.user_id
               /\ task[t].count = Cardinality(T0) - Cardinality(tracking)
               /\ conversions = C0

\* Of two equally old rows the one without a conversion was removed.
C25_Witness ==
    \E t \in Tasks :
        /\ task[t].op = "cleanup" /\ task[t].pc = "done"
        /\ task[t].count = 1
        /\ \E r \in tracking, d \in task[t].pre.tracking \ tracking :
              /\ r.last_visit_time = d.last_visit_time
              /\ r.last_visit_time < task[t].at - task[t].days * 24 * 60
              /\ \E c \in conversions : c.user_id = r.user_id

(***************************************************************************)
(* C26.  A conversion row, once in the table, stays in it unchanged: no    *)
(* step of create_yandex_tracking, track_visit, the chain, the resend      *)
(* batch or cleanup removes or alters a row, so the table only grows.      *)
(***************************************************************************)
C26_ConversionsOnlyGrow ==
    [][ /\ \A c \in conversions : c \in conversions'
        /\ \A c \in conversions' \ conversions :
              \A d \in conversions : d.conversion_id # c.conversion_id ]_vars

\* A cleanup ran over a table with a conversion, whose user's old tracking row
\* it passed over.
C26_Witness ==
    \E t \in Tasks :
        /\ task[t].op = "cleanup" /\ task[t].pc = "done"
        /\ task[t].pre.conversions # {}
        /\ conversions = task[t].pre.conversions
        /\ \E r \in tracking, c \in conversions :
              /\ c.user_id = r.user_id
              /\ r.last_visit_time < task[t].at - task[t].days * 24 * 60

\* How many of the batch's chain calls ended with `res`.
CallsWith(calls, res) ==
    Cardinality({i \in 1..Len(calls) : calls[i].result = res})

(***************************************************************************)
(* C27, as claimed.  The tally of resend_missing_conversions has           *)
(* processed = the number of payments the chain was run for, success = the *)
(* runs that returned true, failed = the rest, and processed = success +   *)
(* failed.  The code refutes it for a user with two payments: three        *)
(* payments of two users give processed = 2.                               *)
(***************************************************************************)
C27_ProcessedCountsPayments ==
    \A t \in Tasks :
        (task[t].op = "resend" /\ task[t].pc = "done")
        => /\ task[t].tally.processed = Len(task[t].calls)
           /\ task[t].tally.success = CallsWith(task[t].calls, "true")
           /\ task[t].tally.failed =
                 Len(task[t].calls) - CallsWith(task[t].calls, "true")
           /\ task[t].tally.processed =
                 task[t].tally.success + task[t].tally.failed

(***************************************************************************)
(* C27, amended.  The tally has processed = the number of users the chain  *)
(* was run for, success = the runs, one per payment, that returned true,   *)
(* failed = the rest, and success + failed = the number of runs.           *)
(***************************************************************************)
C27_ProcessedCountsUsers ==
    \A t \in Tasks :
        (task[t].op = "resend" /\ task[t].pc = "done")
        => /\ task[t].tally.processed =
                 Cardinality({task[t].calls[i].user :
                                 i \in 1..Len(task[t].calls)})
           /\ task[t].tally.success = CallsWith(task[t].calls, "true")
           /\ task[t].tally.failed =
                 Len(task[t].calls) - CallsWith(task[t].calls, "true")
           /\ task[t].tally.success + task[t].tally.failed =
                 Len(task[t].calls)

\* Three payments of two users, the collector refusing one of them.
C27_Witness ==
    \E t \in Tasks :
        /\ task[t].op = "resend" /\ task[t].pc = "done"
        /\ Len(task[t].calls) = 3
        /\ {task[t].calls[i].user : i \in 1..3} = {1, 3}
        /\ {task[t].calls[i].payment : i \in 1..3} = {"1", "2", "4"}
        /\ CallsWith(task[t].calls, "true") = 2
        /\ CallsWith(task[t].calls, "false") = 1
        /\ task[t].tally = [processed |-> 2, success |-> 2, failed |-> 1]

(***************************************************************************)
(* C28.  resend_missing_conversions never ends by an exception: whatever   *)
(* fails in the batch (the listing, a chain call, the commit) it returns   *)
(* its tally; and a failure in the call for one payment does not keep the  *)
(* other payments listed from being tried.                                 *)
(* The code refutes it: the listing and the commit stand outside the try,  *)
(* and the handler is left with the user's remaining payments untried.     *)
(***************************************************************************)
C28_ResendNeverRaises ==
    \A t \in Tasks :
        task[t].op = "resend"
        => /\ task[t].pc # "raised"
           /\ task[t].pc = "done" => task[t].result = "tally"
           /\ task[t].pc \in {"resend_commit", "done"}
              => \A i \in 1..Len(task[t].calls) : \A p \in Payments :
                    (p.user_id = task[t].calls[i].user /\ p.status = "succeeded")
                    => \/ \E j \in 1..Len(task[t].calls) :
                             task[t].calls[j].payment = str(p.payment_id)
                       \/ RowsOf(conversions, p.user_id, str(p.payment_id))
                             # {}

\* The positions at which a request reads the user's tracking row, and those
\* at which the chain and track_visit write to the row they read.
ReadPcs == {"get_tracking", "tv_get_tracking", "upsert_read"}
TouchPcs == {"update_last_visit", "increment_visit_count",
             "tv_update_last_visit", "tv_increment_visit_count"}

(***************************************************************************)
(* C29.  get_tracking_by_user_id gives no row when the user has none, and  *)
(* of several rows of the user one created latest; the chain and           *)
(* track_visit go on with that row, and their updates of last_visit_time   *)
(* and visit_count change that row and no other.                           *)
(***************************************************************************)
C29_ReadsLatestRow ==
    [][ \A t \in Tasks :
          LET own == {r \in tracking : r.user_id = task[t].user} IN
          /\ ( /\ task[t].op \in {"chain", "track_visit", "upsert"}
               /\ task[t].pc \in ReadPcs
               /\ task'[t] # task[t]
               /\ task'[t].pc # "raised" )
             => /\ own = {} <=> task'[t].tr = NoTracking
                /\ own # {}
                   => /\ task'[t].tr \in own
                      /\ \A q \in own :
                            q.created_at <= task'[t].tr.created_at
          /\ ( /\ task[t].op \in {"chain", "track_visit"}
               /\ task[t].pc \in TouchPcs
               /\ task'[t] # task[t] )
             => /\ \A r \in tracking :
                      r.tracking_id # task[t].tr.tracking_id
                      => r \in tracking'
                /\ \A r \in tracking :
                      r.tracking_id = task[t].tr.tracking_id
                      => IF task[t].pc \in {"update_last_visit",
                                            "tv_update_last_visit"}
                         THEN [r EXCEPT !.last_visit_time = task[t].at]
                                 \in tracking'
                         ELSE [r EXCEPT !.visit_count = r.visit_count + 1]
                                 \in tracking'
                /\ Cardinality(tracking') = Cardinality(tracking) ]_vars

\* The user has two rows, and a request went on with the later one.
C29_Witness ==
    \E t \in Tasks :
        /\ task[t].op \in {"chain", "track_visit"}
        /\ task[t].tr # NoTracking
        /\ \E q \in tracking :
              /\ q.user_id = task[t].user
              /\ q.tracking_id # task[t].tr.tracking_id
              /\ q.created_at < task[t].tr.created_at

(***************************************************************************)
(* C30.  track_visit, configured, with a valid client id, for a user       *)
(* without a tracking row: it creates one row, with visit_count 1, for the *)
(* user and the client id, makes one pageview request, and returns what    *)
(* the pageview gave; the row stays when the pageview failed.              *)
(***************************************************************************)
C30_FirstContactSendsPageview ==
    \A t \in Tasks :
        ( /\ task[t].op = "track_visit" /\ task[t].pc = "done"
          /\ configured /\ validate_client_id(task[t].client_id)
          /\ \A r \in task[t].pre.tracking : r.user_id # task[t].user )
        => /\ \E r \in tracking \ task[t].pre.tracking :
                 /\ tracking = task[t].pre.tracking \cup {r}
                 /\ r.user_id = task[t].user
                 /\ r.yandex_client_id = task[t].client_id
                 /\ r.visit_count = 1
                 /\ r.first_visit_time = r.last_visit_time
           /\ task[t].pv \in {"ok", "fail"}
           /\ task[t].result = (IF task[t].pv = "ok" THEN "true" ELSE "false")
           /\ CopiesIn(Request("pageview", strip(task[t].client_id), "",
                               task[t].pv = "ok"), requests) >= 1
           /\ BagCardinality(requests) <= ops
           /\ ops = 1 => BagCardinality(requests) = 1

\* The first pageview failed; the row is there.
C30_Witness ==
    \E t \in Tasks :
        /\ task[t].op = "track_visit" /\ task[t].pc = "done"
        /\ \A r \in task[t].pre.tracking : r.user_id # task[t].user
        /\ task[t].pv = "fail" /\ task[t].result = "false"
        /\ BagCardinality(requests) = 1
        /\ \E r \in tracking :
              r.user_id = task[t].user /\ r.visit_count = 1

\* No tracked user has a succeeded payment without a conversion row.
AllConverted ==
    \A r \in tracking : untracked_payments(conversions, r.user_id) = {}

(***************************************************************************)
(* C31.  With the collector accepting every request and no payment         *)
(* arriving, repeated resend batches come to a state in which no tracked   *)
(* user has a succeeded payment without a conversion row, however many     *)
(* tracking rows there are for the limit given.                            *)
(* The code refutes it: the limit cuts the list of tracking rows before    *)
(* the rows of users with payments are picked from it.                     *)
(***************************************************************************)
C31_ResendEventuallyConverts == <>AllConverted

\* The batch of task t has listed its users and made no chain call yet.
Listed(t) ==
    /\ task[t].op = "resend" /\ task[t].pc = "get_tracking"
    /\ task[t].calls = <<>>

\* The payments the batch of task t still has to run, with their user.
Enumerated(t) ==
    UNION { { <<task[t].queue[i].user_id,
                task[t].queue[i].payments[j].payment_id>> :
                 j \in 1..Len(task[t].queue[i].payments) } :
            i \in 1..Len(task[t].queue) }

(***************************************************************************)
(* C32.  A resend batch lists only succeeded payments that have no         *)
(* conversion row of their user; a payment whose chain run returned true   *)
(* in a batch is not listed by a later batch and its purchase is not sent  *)
(* again; the purchase of a payment that has not succeeded is never sent.  *)
(* The code refutes it: a run whose insert the database refuses returns    *)
(* true without a row (C5), and the next batch lists the payment again.    *)
(***************************************************************************)
C32_ResendSelectsUnconvertedOnly ==
    /\ \A t \in Tasks : Listed(t) =>
          \A pr \in Enumerated(t) :
             /\ \E p \in Payments :
                   /\ p.user_id = pr[1] /\ str(p.payment_id) = pr[2]
                   /\ p.status = "succeeded"
             /\ RowsOf(conversions, pr[1], pr[2]) = {}
             /\ \A i \in 1..Len(runs[pr]) : runs[pr][i] # "true"
    /\ \A p \in Payments :
          SentCount("ecommerce", str(p.payment_id))
             <= (IF p.status = "succeeded" THEN 1 ELSE 0)

(***************************************************************************)
(* C33.  In every reachable state the user of each conversion row has a    *)
(* tracking row, however chain runs and cleanups interleave.               *)
(* The code refutes it: a cleanup between the chain's lookup and its       *)
(* insert deletes the row of a user who has no conversion row yet.         *)
(***************************************************************************)
C33_ConversionHasTracking ==
    \A c \in conversions : \E r \in tracking : r.user_id = c.user_id

(***************************************************************************)
(* C34.  A first-time create_yandex_tracking call, one that found no row   *)
(* of the user and inserted one, leaves exactly one tracking row of that   *)
(* user, also when another first-time call for the user ran between its    *)
(* existence check and its insert.                                         *)
(* The code refutes it: both calls find no row and both insert.            *)
(***************************************************************************)
C34_FirstUpsertsLeaveOneRow ==
    \A t \in Tasks :
       (/\ task[t].op = "upsert" /\ task[t].pc = "done"
        /\ task[t].tr = NoTracking /\ task[t].result = "tracking")
       => Cardinality({r \in tracking : r.user_id = task[t].user}) = 1

(***************************************************************************)
(* C35.  track_visit that finds a tracking row of the user: with the visit *)
(* open it returns true, sends nothing and leaves both tables as found;    *)
(* with the visit closed it sends one pageview and returns its result, and *)
(* the row it read gets last_visit_time = now, the time the pageview came  *)
(* back, and visit_count + 1 exactly when the pageview was accepted;       *)
(* otherwise the tables are left as found.                                 *)
(***************************************************************************)
C35_TrackVisitFrame ==
    /\ BagCardinality(requests) <= ops
    /\ \A t \in Tasks :
        (/\ task[t].op = "track_visit" /\ task[t].pc = "done"
         /\ task[t].tr # NoTracking)
        => /\ conversions = task[t].pre.conversions
           /\ IF ~task[t].closed
              THEN /\ task[t].result = "true" /\ task[t].pv = "none"
                   /\ tracking = task[t].pre.tracking
                   /\ ops = 1 => requests = EmptyBag
              ELSE /\ task[t].pv \in {"ok", "fail"}
                   /\ task[t].result = (IF task[t].pv = "ok" THEN "true"
                                        ELSE "false")
                   /\ ops = 1 =>
                        requests = SetToBag({Request("pageview",
                            strip(task[t].client_id), "", task[t].pv = "ok")})
                   /\ IF task[t].pv = "ok"
                      THEN /\ Touched(task[t].pre.tracking, tracking,
                                      task[t].tr.tracking_id, task[t].at)
                           /\ task[t].at \in 0..now
                           /\ \E r \in tracking :
                                 /\ r.tracking_id = task[t].tr.tracking_id
                                 /\ r.last_visit_time = task[t].at
                           /\ tracking # task[t].pre.tracking
                      ELSE tracking = task[t].pre.tracking

\* A closed visit reopened by the second call, after a call whose pageview
\* failed.
C35_Witness ==
    \E t \in Tasks :
        /\ task[t].op = "track_visit" /\ task[t].pc = "done"
        /\ task[t].closed /\ task[t].pv = "ok" /\ ops = 2
        /\ BagCardinality(requests) = 2
        /\ \E r \in tracking :
              /\ r.tracking_id = task[t].tr.tracking_id
              /\ r.last_visit_time = task[t].at /\ task[t].at > 0
              /\ r.visit_count = task[t].tr.visit_count + 1
        /\ \E r \in BagToSet(requests) : ~r.ok

(***************************************************************************)
(* C36.  A chain run reopened the closed session (pageview accepted) and   *)
(* failed at the ecommerce send.  A retry for the same payment that comes  *)
(* within the visit window of 12 h + 30 min and succeeds, called directly  *)
(* or by the resend batch, finds the session open and sends no pageview:   *)
(* over both runs one pageview is accepted and visit_count rises by one.   *)
(* The code refutes it: the chain takes the session for closed after 12 h  *)
(* (C10), so a retry 12 h 30 min after the reopening reopens it again.     *)
(***************************************************************************)
C36_RetryKeepsVisit ==
    \A t \in Tasks :
       (/\ Completed(t) /\ task[t].result = "true"
        /\ <<task[t].user, task[t].payment>> = RetryPair
        /\ runs[RetryPair] = <<"false", "true">>
        /\ \E r \in task[t].pre.tracking : r.visit_count = 2
        /\ \E r \in BagToSet(requests) : r.kind = "ecommerce" /\ ~r.ok
        /\ task[t].elapsed <= PolicyWindow)
       => /\ ~task[t].closed /\ task[t].pv = "none"
          /\ \A r \in BagToSet(requests) :
                (r.kind = "pageview" /\ r.ok) => requests[r] = 1
          /\ \A r \in tracking : r.visit_count = 2

\* How many rows of schema_migrations hold the id.
Recorded(id) ==
    Cardinality({k \in 1..Len(schema_migrations) : schema_migrations[k] = id})

\* The place of a migration in MIGRATIONS.
Place(id) == CHOOSE k \in 1..Len(MIGRATIONS) : MIGRATIONS[k] = id

(***************************************************************************)
(* C37.  run_database_migrations applies the pending migrations in the     *)
(* order of MIGRATIONS and passes over every migration whose id is in      *)
(* schema_migrations: an upgrade runs only for an id that is not recorded, *)
(* no id is ever recorded twice, after a run that returned every id is     *)
(* recorded exactly once, and over any number of runs in which no          *)
(* statement raised each upgrade has run at most once.                     *)
(***************************************************************************)
C37_MigrationsAppliedOnce ==
    /\ \A id \in Ids(MIGRATIONS) :
          /\ Recorded(id) <= 1
          /\ migrate.faults = 0 => executed[id] <= 1
          /\ migrate.pc = "done" => Recorded(id) = 1
    /\ migrate.pc = "record"
          => MIGRATIONS[migrate.i] \notin Ids(schema_migrations)
    /\ \A a, b \in 1..Len(migrate.applied) :
          a < b => Place(migrate.applied[a]) < Place(migrate.applied[b])
    /\ migrate.pc \in {"loop", "record"}
          => \A k \in 1..Len(MIGRATIONS) :
                k < migrate.i => Recorded(MIGRATIONS[k]) = 1

\* The third run over a fresh database passes over both migrations, applied
\* in order by the first.
C37_Witness ==
    /\ migrate.n = 3 /\ migrate.pc = "done" /\ migrate.applied = <<>>
    /\ migrate.faults = 0
    /\ schema_migrations = MIGRATIONS
    /\ \A id \in Ids(MIGRATIONS) : executed[id] = 1

(***************************************************************************)
(* C38.  When the upgrade of a migration raises, the run ends with the     *)
(* exception: the id of that migration is not recorded, no later migration *)
(* of the list is applied in that run, and the ids recorded before, by     *)
(* earlier runs or earlier in the run, stay recorded; the next run passes  *)
(* over them and tries the failed migration first.                         *)
(***************************************************************************)
C38_FailedMigrationIsRetried ==
    /\ migrate.faulted # {}
          => /\ migrate.pc = "raised"
             /\ migrate.faulted = {migrate.raised}
    /\ migrate.pc = "raised"
          => /\ migrate.raised = MIGRATIONS[migrate.i]
             /\ Recorded(migrate.raised) = 0
             /\ \A k \in 1..Len(migrate.applied) :
                   Place(migrate.applied[k]) < migrate.i
             /\ Ids(schema_migrations)
                   = migrate.applied_revisions \cup Ids(migrate.applied)
             /\ \A k \in 1..Len(MIGRATIONS) :
                   k < migrate.i => Recorded(MIGRATIONS[k]) = 1
    /\ (/\ migrate.failed # ""
        /\ migrate.pc \in {"record", "raised", "done"}
        /\ migrate.applied = <<>>)
          => /\ migrate.pc # "done"
             /\ MIGRATIONS[migrate.i] = migrate.failed
    /\ (migrate.failed # "" /\ migrate.applied # <<>>)
          => migrate.applied[1] = migrate.failed

\* The upgrade of the second migration raised in a run that had applied the
\* first; the next run has passed over the first and applied the second.
C38_Witness ==
    /\ migrate.failed = MIGRATIONS[2]
    /\ migrate.pc = "done" /\ migrate.applied = <<MIGRATIONS[2]>>
    /\ migrate.applied_revisions = {MIGRATIONS[1]}
    /\ executed[MIGRATIONS[1]] = 1 /\ executed[MIGRATIONS[2]] = 1
    /\ migrate.faults = 1 /\ migrate.n = 2

====
